---- MODULE Spec2Model ----
(***************************************************************************)
(* A model of the CellRegMap / StructLMM2 analysis contexts: construction  *)
(* of the rho grid and of the per-rho cache, the rho-grid search shared by *)
(* every scan, the batch dispatch of scan_interaction and the likelihood   *)
(* ratio p-values of scan_association.                                     *)
(*                                                                         *)
(* Numerical collaborators (glimix_core.LMM, chiscore.davies_pvalue,       *)
(* scipy chi2.sf, joblib.Parallel) are not part of the repository.  They   *)
(* are modelled by deterministic operators over small integer domains:     *)
(*   - a mixing weight rho is an integer number of 1/90 (RhoOne = 1.0),    *)
(*     so that both linspace(0,1,11) and linspace(0,1,10) are exact;       *)
(*   - an LML is an integer, NegInf stands for -inf;                       *)
(*   - a float in [0,1] (a p-value) is a fixed-point integer with FlOne    *)
(*     standing for 1.0, and float arithmetic rounds to FlMant significant *)
(*     bits (round-half-even), as IEEE doubles round to 53.                *)
(***************************************************************************)
EXTENDS Integers, Sequences, FiniteSets, TLC

\* ------------------------------------------------------------------ bounds
MaxSnps  == 4      \* columns of G are 0..MaxSnps
MaxGeno  == 2      \* distinct genotype columns 1..MaxGeno
MaxY     == 0      \* trait vectors 0..MaxY
MaxCores == 2      \* joblib.cpu_count() is 1..MaxCores
MaxLml   == 5      \* LMLs given to lrt_pvalues are 0..MaxLml
MaxLevel == 2      \* LMLs of a grid-search profile are 0..MaxLevel
MaxApiSnps == 2    \* columns of G in the specification of the whole interface

\* --------------------------------------------------------------- constants
RhoOne == 90       \* the mixing weight 1.0
NegInf == -1       \* -inf, below every LML a fit returns
FlOne  == 256      \* the float 1.0 (fixed point, 8 fraction bits)
FlMant == 2        \* significant bits kept by a float operation
EpsSuperTiny == 1  \* numpy_sugar.epsilon.super_tiny = finfo(float).tiny

Max2(a, b) == IF a >= b THEN a ELSE b
Min2(a, b) == IF a <= b THEN a ELSE b

RECURSIVE Pow2(_)
Pow2(n) == IF n <= 0 THEN 1 ELSE 2 * Pow2(n - 1)

\* numpy_sugar.epsilon.tiny = finfo(float).eps: the distance from 1.0 to the
\* next float above it
EpsTiny == FlOne \div Pow2(FlMant - 1)

\* floor(log2 v) for v >= 1
RECURSIVE Log2(_)
Log2(v) == IF v <= 1 THEN 0 ELSE 1 + Log2(v \div 2)

\* floor(sqrt v)
RECURSIVE SqrtFrom(_, _)
SqrtFrom(v, r) == IF (r + 1) * (r + 1) > v THEN r ELSE SqrtFrom(v, r + 1)
Isqrt(v) == SqrtFrom(v, 0)

\* --------------------------------------------------------- float arithmetic
\* The result of a float operation whose exact value is v: v rounded to
\* FlMant significant bits, ties to even.
RoundFl(v) ==
    IF v <= 0 THEN 0
    ELSE LET e == Log2(v)
             q == Pow2(e - FlMant + 1)
             r == v % q
             lo == v - r
         IN  IF e < FlMant THEN v
             ELSE IF 2 * r > q THEN lo + q
             ELSE IF 2 * r < q THEN lo
             ELSE IF (lo \div q) % 2 = 0 THEN lo ELSE lo + q

\* numpy.clip(v, lo, hi)
Clip(v, lo, hi) == Min2(Max2(v, lo), hi)

\* -------------------------------------------------- likelihood-ratio test
\* scipy.stats.chi2(df=dof).sf(x) for a float x >= 0 (x in fixed point): 1.0
\* at 0, non-increasing, and underflowing to 0.0 for a large statistic.
Chi2Sf(x, dof) ==
    IF x < FlOne THEN RoundFl(FlOne - (Isqrt(x * FlOne) \div (2 * dof)))
    ELSE RoundFl(FlOne \div Pow2((x \div FlOne) \div dof))

\* lrs = clip(-2 * null_lml + 2 * alt_lml, epsilon.super_tiny, inf)
LrsBug(null_lml, alt_lml) ==
    Max2((2 * null_lml - 2 * alt_lml) * FlOne, EpsSuperTiny)
Lrs(null_lml, alt_lml) ==
    Max2((-2 * null_lml + 2 * alt_lml) * FlOne, EpsSuperTiny)

\* the float 1 - epsilon.tiny, the upper clipping threshold: a float below
\* 1.0, the subtraction is exact
OneMinusTiny == RoundFl(FlOne - EpsTiny)

\* lrt_pvalues(null_lml, alt_lmls, dof)
LrtPvaluesClipAtOne(null_lml, alt_lmls, dof) ==
    [i \in DOMAIN alt_lmls |->
        Clip(Chi2Sf(Lrs(null_lml, alt_lmls[i]), dof), EpsSuperTiny, FlOne)]
LrtPvalues(null_lml, alt_lmls, dof) ==
    [i \in DOMAIN alt_lmls |->
        Clip(Chi2Sf(Lrs(null_lml, alt_lmls[i]), dof), EpsSuperTiny, OneMinusTiny)]

\* ------------------------------------------------------------ the rho grid
\* numpy.linspace(0, 1, num)
Linspace(num) == [i \in 1..num |-> ((i - 1) * RhoOne) \div (num - 1)]

\* the length of the grid CellRegMap.__init__ builds with secondary structure
CellRegMapGridLen == 11
\* the length of the grid StructLMM2.__init__ builds with secondary structure
StructLMM2GridLen == 10

\* The half-matrix concatenate([a * prim] + [b * L for L in sec]) with
\* a = sqrt(rho1), b = sqrt(1 - rho1): the blocks and their squared scales.
HalfSigma(prim, sec, rho1) ==
    [prim |-> prim, a2 |-> rho1, sec |-> sec, b2 |-> RhoOne - rho1]

\* economic_qs_linear(H, return_q1=False): the decomposition of H H^T
EconomicQs(H) == [qs_of |-> H]

Range(s) == {s[i] : i \in DOMAIN s}

\* A matrix with its rows taken in the order idx ("None": its own order).
Rows(mat, idx) == [mat |-> mat, idx |-> idx]

\* M if idx is None else M[idx, :]
Take(M, idx) == IF idx = "None" THEN M ELSE Rows(M.mat, idx)

\* The sample counts of the arguments of a constructor: y has SameRows rows,
\* an argument that disagrees has OtherRows, an argument not given has NoRows.
SameRows == 2
OtherRows == 3
NoRows == 0
NoShapes == [W |-> NoRows, E |-> NoRows, E1 |-> NoRows, Ls |-> NoRows, hK |-> NoRows]

NoObj ==
    [cls |-> "none", y |-> 0, W |-> "W", E0 |-> Rows("E", "None"), E1 |-> "E",
     Ls |-> <<>>, rho1 |-> <<>>, shapes |-> NoShapes,
     halfSigma |-> [r \in {} |-> 0], Sigma_qs |-> [r \in {} |-> 0]]

\* CellRegMap.__init__(y, E, W, Ls, E1, hK): the grid and the per-rho cache.
\* W = None stands for the column of ones, E1 = None for E; hK is read only
\* when Ls is empty.
CellRegMapInit(y, E, W, Ls, E1, hK) ==
    LET e1 == IF E1 = "None" THEN E ELSE E1
        sec == IF Len(Ls) = 0 THEN (IF hK = "None" THEN <<>> ELSE <<hK>>) ELSE Ls
        grid == IF Len(Ls) = 0 /\ hK = "None" THEN <<RhoOne>>
                ELSE Linspace(CellRegMapGridLen)
    IN  [cls |-> "CellRegMap", y |-> y,
         W |-> IF W = "None" THEN "ones" ELSE W,
         E0 |-> Rows(E, "None"), E1 |-> e1, Ls |-> Ls, rho1 |-> grid,
         shapes |-> NoShapes,
         halfSigma |-> [r \in Range(grid) |-> HalfSigma(e1, sec, r)],
         Sigma_qs |-> [r \in Range(grid) |-> EconomicQs(HalfSigma(e1, sec, r))]]

\* The asserts of CellRegMap.__init__ on the sample counts of W, E, E1 and
\* of every Ls[i], and the concatenate of E1 with hK, which raises on
\* different row counts: TRUE when construction goes through.  sh gives the
\* sample count of each argument (NoRows: not given).
ShapesAccepted(sh) ==
    /\ sh.W \in {NoRows, SameRows}
    /\ sh.E = SameRows
    /\ (IF sh.E1 = NoRows THEN sh.E ELSE sh.E1) = SameRows
    /\ sh.Ls \in {NoRows, SameRows}
    /\ (sh.Ls = NoRows /\ sh.hK # NoRows) =>
           sh.hK = (IF sh.E1 = NoRows THEN sh.E ELSE sh.E1)

\* StructLMM2.__init__(y, W, E, G): the grid and the per-rho cache
StructLMM2Init(y, G) ==
    LET grid == IF Len(G) = 0 THEN <<RhoOne>> ELSE Linspace(StructLMM2GridLen)
    IN  [cls |-> "StructLMM2", y |-> y, W |-> "W", E0 |-> Rows("E", "None"),
         E1 |-> "E", Ls |-> G, rho1 |-> grid, shapes |-> NoShapes,
         halfSigma |-> [r \in Range(grid) |-> HalfSigma("E", G, r)],
         Sigma_qs |-> [r \in Range(grid) |-> EconomicQs(HalfSigma("E", G, r))]]

\* ---------------------------------------------------------------- the fitter
\* The design matrix: W alone (g = 0), [W | g] for the genotype column g, or
\* [W | g | E] for the mean of the effect-size models (E = "none": no E block).
DesignOf(W, g, E) == [W |-> W, g |-> g, E |-> E]
Design(g) == DesignOf("W", g, "none")

\* position of a mixing weight on the scale 0..10
RhoTenth(rho1) == rho1 \div 9

\* LMM(y, X, QS, restricted).fit(): glimix_core's optimiser, a deterministic
\* function of its inputs.  It either raises (non-finite values in a column,
\* or the optimiser failing at one rho) or returns a finite LML with the
\* variance components v0 and v1.  The LML of the design [W | g] is the LML
\* of the design W at the same covariance plus the gain of the column g.
LMMFit(y, X, QS, restricted) ==
    LET t == RhoTenth(QS.qs_of.a2)
        n == Len(QS.qs_of.sec)
        bad == \/ (X.g > 0 /\ X.g % 3 = 0)
               \/ (X.g % 3 = 2 /\ t % 5 = 2 * y /\ n # 1)
        cov == (IF X.W = "W" THEN 0 ELSE 1) + (IF X.E = "none" THEN 0 ELSE 2)
    IN  [raised |-> bad,
         lml |-> ((2 * y + ((t * t) \div 4) + n + cov
                     + (IF restricted THEN 1 ELSE 0)) % 4)
                 + (IF X.g = 0 THEN 0
                    ELSE (X.g * t + ((X.g * X.g * t) \div 3) + X.g) % 3),
         v0 |-> 1 + ((X.g + t) % 2),
         v1 |-> 1 + ((y + t + n) % 2),
         QS |-> QS, X |-> X, restricted |-> restricted]

\* -------------------------------------------------------- the rho-grid search
NoLmm == [raised |-> TRUE, lml |-> NegInf, v0 |-> 0, v1 |-> 0,
          QS |-> EconomicQs(HalfSigma("none", <<>>, 0)), X |-> Design(0),
          restricted |-> FALSE]

\* best = {"lml": -inf, "rho1": 0, "lmm": None}
BestInit == [lml |-> NegInf, rho1 |-> 0, lmm |-> NoLmm]

\* if lmm.lml() > best["lml"]: best.update(lml, rho1, lmm)
BestUpdateTies(best, rho1, lmm) ==
    IF lmm.lml >= best.lml THEN [lml |-> lmm.lml, rho1 |-> rho1, lmm |-> lmm]
    ELSE best
BestUpdate(best, rho1, lmm) ==
    IF lmm.lml > best.lml THEN [lml |-> lmm.lml, rho1 |-> rho1, lmm |-> lmm]
    ELSE best

\* for rho1 in rho1_values: fit, compare.  fits[k] is the outcome of the fit
\* at rho1_values[k]; a fit that raises ends the loop with the exception.
RECURSIVE GridLoop(_, _, _, _)
GridLoop(rho1_values, fits, k, best) ==
    IF k > Len(rho1_values) THEN [raised |-> FALSE, best |-> best]
    ELSE IF fits[k].raised THEN [raised |-> TRUE, best |-> best]
    ELSE GridLoop(rho1_values, fits, k + 1,
                  BestUpdate(best, rho1_values[k], fits[k]))

GridSearch(rho1_values, fits) == GridLoop(rho1_values, fits, 1, BestInit)

\* the fits of one grid search of a context: LMM(y, X, Sigma_qs[rho1], restricted)
GridFits(o, X, restricted) ==
    [k \in DOMAIN o.rho1 |-> LMMFit(o.y, X, o.Sigma_qs[o.rho1[k]], restricted)]

\* ------------------------------------------------------------ the score test
\* QSCov and PMat keep their arguments; what the projection does to a
\* matrix, P.dot(v), is PMatDot in the dense linear algebra below.
QSCov(QS, v0, v1) == [QS |-> QS, v0 |-> v0, v1 |-> v1]
PMat(qscov, X) == [qscov |-> qscov, X |-> X]
Ddot(gtest, E0) == [g |-> gtest, E |-> E0]
ScoreStatistic(P, qscov, factor) == [P |-> P, qscov |-> qscov, factor |-> factor]

\* ss.statistic(y): the score statistic Q, on the scale 0..3.  It depends on
\* the factor g (.) E0 row by row, so reordering either operand changes it.
Statistic(ss, y) ==
    (y + 2 * ss.factor.g.mat + ss.qscov.v0 + RhoTenth(ss.qscov.QS.qs_of.a2)
       + (IF ss.factor.g.idx = "None" THEN 0 ELSE 1)
       + (IF ss.factor.E.idx = "None" THEN 0 ELSE 2)) % 4

\* davies_pvalue(Q, weights, True): 1.0 for Q = 0, decreasing in Q, and 0.0
\* for an extreme statistic
DaviesPvalue(Q) == FlOne \div Pow2(3 * Q)

\* -------------------------------------------------------- process_snp_batch
\* The test of one column g, shared by process_snp_batch and by the loop of
\* StructLMM2.scan_interaction: the grid search of the null model [W | g]
\* (restricted ML), then the score test with the factor gtest (.) E0.
\* what the test of a column returns when a fit raised
SnpRaised == [raised |-> TRUE, pval |-> 0, rho1 |-> 0, e2 |-> 0, g2 |-> 0,
              eps2 |-> 0, restricted |-> {TRUE},
              ss |-> ScoreStatistic(PMat(QSCov(NoLmm.QS, 0, 0), Design(0)),
                                    QSCov(NoLmm.QS, 0, 0),
                                    Ddot(Rows(0, "None"), Rows("E", "None")))]

SnpScoreLastFit(g, gtest, W, E0, rho1_values, Sigma_qs, y) ==
    LET X == DesignOf(W, g, "none")
        fits == [k \in DOMAIN rho1_values |->
                    LMMFit(y, X, Sigma_qs[rho1_values[k]], TRUE)]
        gs == GridSearch(rho1_values, fits)
        best == gs.best
        lmm == fits[Len(fits)]
        qscov == QSCov(Sigma_qs[best.rho1], lmm.v0, lmm.v1)
        P == PMat(qscov, X)
        ss == ScoreStatistic(P, qscov, Ddot(gtest, E0))
    IN  IF gs.raised THEN SnpRaised
        ELSE [raised |-> FALSE,
              pval |-> DaviesPvalue(Statistic(ss, y)),
              rho1 |-> best.rho1,
              e2 |-> lmm.v0 * best.rho1,
              g2 |-> lmm.v0 * (RhoOne - best.rho1),
              eps2 |-> lmm.v1,
              restricted |-> {fits[k].restricted : k \in DOMAIN fits},
              ss |-> ss]
SnpScore(g, gtest, W, E0, rho1_values, Sigma_qs, y) ==
    LET X == DesignOf(W, g, "none")
        fits == [k \in DOMAIN rho1_values |->
                    LMMFit(y, X, Sigma_qs[rho1_values[k]], TRUE)]
        gs == GridSearch(rho1_values, fits)
        best == gs.best
        lmm == best.lmm
        qscov == QSCov(Sigma_qs[best.rho1], lmm.v0, lmm.v1)
        P == PMat(qscov, X)
        ss == ScoreStatistic(P, qscov, Ddot(gtest, E0))
    IN  IF gs.raised THEN SnpRaised
        ELSE [raised |-> FALSE,
              pval |-> DaviesPvalue(Statistic(ss, y)),
              rho1 |-> best.rho1,
              e2 |-> lmm.v0 * best.rho1,
              g2 |-> lmm.v0 * (RhoOne - best.rho1),
              eps2 |-> lmm.v1,
              restricted |-> {fits[k].restricted : k \in DOMAIN fits},
              ss |-> ss]

\* the body of the loop of process_snp_batch for the column g:
\* gtest = g.ravel(), the column in its own order
SnpTest(g, W, E0, rho1_values, Sigma_qs, y) ==
    SnpScore(g, Rows(g, "None"), W, E0, rho1_values, Sigma_qs, y)

\* process_snp_batch(snp_indices, G, W, E0, rho1_values, Sigma_qs, y):
\* snp_indices are 0-based columns of G
ProcessSnpBatchSharedScratch(snp_indices, G, W, E0, rho1_values, Sigma_qs, y) ==
    LET t == [j \in DOMAIN snp_indices |->
                 SnpScore(G[snp_indices[j] + 1],
                          Rows(G[snp_indices[1] + 1], "None"),
                          W, E0, rho1_values, Sigma_qs, y)]
    IN  [raised |-> \E j \in DOMAIN t : t[j].raised,
         restricted |-> UNION {t[j].restricted : j \in DOMAIN t},
         tests |-> [j \in DOMAIN t |-> t[j].ss],
         pvalues |-> [j \in DOMAIN t |-> t[j].pval],
         rho1 |-> [j \in DOMAIN t |-> t[j].rho1],
         e2 |-> [j \in DOMAIN t |-> t[j].e2],
         g2 |-> [j \in DOMAIN t |-> t[j].g2],
         eps2 |-> [j \in DOMAIN t |-> t[j].eps2]]
ProcessSnpBatch(snp_indices, G, W, E0, rho1_values, Sigma_qs, y) ==
    LET t == [j \in DOMAIN snp_indices |->
                 SnpTest(G[snp_indices[j] + 1], W, E0, rho1_values, Sigma_qs, y)]
    IN  [raised |-> \E j \in DOMAIN t : t[j].raised,
         restricted |-> UNION {t[j].restricted : j \in DOMAIN t},
         tests |-> [j \in DOMAIN t |-> t[j].ss],
         pvalues |-> [j \in DOMAIN t |-> t[j].pval],
         rho1 |-> [j \in DOMAIN t |-> t[j].rho1],
         e2 |-> [j \in DOMAIN t |-> t[j].e2],
         g2 |-> [j \in DOMAIN t |-> t[j].g2],
         eps2 |-> [j \in DOMAIN t |-> t[j].eps2]]

\* range(lo, hi) as a sequence
RangeSeq(lo, hi) == [j \in 1..Max2(hi - lo, 0) |-> lo + j - 1]

\* batch_size = max(1, n_snps // num_cores)
BatchSizeCeil(n_snps, num_cores) ==
    Max2(1, (n_snps + num_cores - 1) \div num_cores)
BatchSize(n_snps, num_cores) == Max2(1, n_snps \div num_cores)

\* range(i, min(i + batch_size, n_snps)) for the b-th start of
\* range(0, n_snps, batch_size)
SnpIndicesStrided(b, n_snps, num_cores) ==
    LET nb == (n_snps + BatchSize(n_snps, num_cores) - 1) \div BatchSize(n_snps, num_cores)
    IN  [j \in 1..Cardinality({i \in 0..(n_snps - 1) : i % nb = b - 1}) |->
            (b - 1) + (j - 1) * nb]
SnpIndices(b, n_snps, num_cores) ==
    LET bs == BatchSize(n_snps, num_cores)
        i == (b - 1) * bs
    IN  RangeSeq(i, Min2(i + bs, n_snps))

\* the inputs list of scan_interaction: one range per batch
Batches(n_snps, num_cores) ==
    LET bs == BatchSize(n_snps, num_cores)
    IN  [b \in 1..((n_snps + bs - 1) \div bs) |-> SnpIndices(b, n_snps, num_cores)]

\* [x for batch_result in results for x in batch_result[field]]
RECURSIVE Flatten(_, _)
Flatten(rs, k) ==
    IF k > Len(rs) THEN <<>> ELSE rs[k] \o Flatten(rs, k + 1)

\* ------------------------------------------------------------ the scans
\* What a call returned: the p-values and the diagnostics arrays, and, to
\* state properties of the fits it made, the likelihood types of its fits
\* (restricted: TRUE for REML), the types compared by its likelihood-ratio
\* tests (lrt: pairs <<null, alternative>>), the normalization factors of
\* predict_interaction (norm), the score test built for each column (tests)
\* and, for the effect-size operations, per column the half-matrices built
\* (hsigma), the decompositions the fits used (fit_qs) and the decomposition
\* of the covariance solve (solve_qs).
NoRet == [op |-> "none", status |-> "none", pvalues |-> <<>>,
          rho1 |-> <<>>, e2 |-> <<>>, g2 |-> <<>>, eps2 |-> <<>>,
          restricted |-> {}, lrt |-> {}, norm |-> <<>>, tests |-> <<>>,
          hsigma |-> <<>>, fit_qs |-> <<>>, solve_qs |-> <<>>]

Raised(op) == [NoRet EXCEPT !.op = op, !.status = "raised"]

\* process_snp(i, G, W, y, QS): the alternative fit of column i (0-based)
ProcessSnpReml(i, G, W, y, QS) ==
    LMMFit(y, DesignOf(W, G[i + 1], "none"), QS, TRUE)
ProcessSnpSweep(i, G, W, y, QS) ==
    LET grid == Linspace(CellRegMapGridLen)
        fits == [k \in DOMAIN grid |->
                    LMMFit(y, DesignOf(W, G[i + 1], "none"),
                           EconomicQs([QS.qs_of EXCEPT !.a2 = grid[k],
                                                       !.b2 = RhoOne - grid[k]]),
                           FALSE)]
        gs == GridSearch(grid, fits)
    IN  IF gs.raised THEN [gs.best.lmm EXCEPT !.raised = TRUE] ELSE gs.best.lmm
ProcessSnp(i, G, W, y, QS) ==
    LMMFit(y, DesignOf(W, G[i + 1], "none"), QS, FALSE)

\* the null model of scan_association: the fits of the design W over the
\* grid with the cached decompositions (ML), and the grid search over them
ScanAssociationNullFits(o) == GridFits(o, DesignOf(o.W, 0, "none"), FALSE)
ScanAssociationNull(o) == GridSearch(o.rho1, ScanAssociationNullFits(o))

\* QS = self._Sigma_qs[best["rho1"]]: the decomposition handed to every task
ScanAssociationQS(o) == o.Sigma_qs[ScanAssociationNull(o).best.rho1]

\* what scan_association returns once Parallel has returned the alternative
\* fits alt, one per column: lrt_pvalues of the null LML and the alternative
\* LMLs, and the diagnostics of the null fit
ScanAssociationValue(o, G, alt) ==
    LET fits == ScanAssociationNullFits(o)
        best == ScanAssociationNull(o).best
        null_lmm == best.lmm
    IN  [NoRet EXCEPT
         !.op = "scan_association", !.status = "ok",
         !.pvalues = LrtPvalues(null_lmm.lml, [i \in 1..Len(G) |-> alt[i].lml], 1),
         !.rho1 = <<best.rho1>>,
         !.e2 = <<null_lmm.v0 * best.rho1>>,
         !.g2 = <<null_lmm.v0 * (RhoOne - best.rho1)>>,
         !.eps2 = <<null_lmm.v1>>,
         !.restricted = {fits[k].restricted : k \in DOMAIN fits}
                          \cup {alt[i].restricted : i \in 1..Len(G)},
         !.lrt = {<<null_lmm.restricted, alt[i].restricted>> : i \in 1..Len(G)}]

\* flmm.fast_scan(G)["lml"]: the alternative LML of column g at the variance
\* components of the null fit
FastScanLml(null_lmm, g) == null_lmm.lml + ((g + null_lmm.v0) % 3)

\* the likelihood of the fast scanner: the full marginal likelihood
FastScanRestricted == FALSE

\* CellRegMap.scan_association_fast(G)
ScanAssociationFast(o, G) ==
    LET fits == GridFits(o, DesignOf(o.W, 0, "none"), FALSE)
        gs == GridSearch(o.rho1, fits)
        best == gs.best
        null_lmm == best.lmm
    IN  IF gs.raised THEN Raised("scan_association_fast")
        ELSE [NoRet EXCEPT
              !.op = "scan_association_fast", !.status = "ok",
              !.pvalues = LrtPvalues(null_lmm.lml,
                             [i \in 1..Len(G) |-> FastScanLml(null_lmm, G[i])], 1),
              !.rho1 = <<best.rho1>>,
              !.e2 = <<null_lmm.v0 * best.rho1>>,
              !.g2 = <<null_lmm.v0 * (RhoOne - best.rho1)>>,
              !.eps2 = <<null_lmm.v1>>,
              !.restricted = {fits[k].restricted : k \in DOMAIN fits}
                               \cup {FastScanRestricted : i \in 1..Len(G)},
              !.lrt = {<<null_lmm.restricted, FastScanRestricted>> : i \in 1..Len(G)}]

\* the fields of a context after scan_association returned: the scan assigns
\* no attribute of self
ObjAfterScanCentred(o) == [o EXCEPT !.y = o.y + 1]
ObjAfterScan(o) == o

\* the unpacking of the batch results of CellRegMap.scan_interaction
UnpackResultsSwapped(rs) ==
    [NoRet EXCEPT
     !.op = "scan_interaction", !.status = "ok",
     !.pvalues = Flatten([b \in DOMAIN rs |-> rs[b].pvalues], 1),
     !.rho1 = Flatten([b \in DOMAIN rs |-> rs[b].rho1], 1),
     !.e2 = Flatten([b \in DOMAIN rs |-> rs[b].g2], 1),
     !.g2 = Flatten([b \in DOMAIN rs |-> rs[b].e2], 1),
     !.eps2 = Flatten([b \in DOMAIN rs |-> rs[b].eps2], 1),
     !.tests = Flatten([b \in DOMAIN rs |-> rs[b].tests], 1),
     !.restricted = UNION {rs[b].restricted : b \in DOMAIN rs}]
UnpackResults(rs) ==
    [NoRet EXCEPT
     !.op = "scan_interaction", !.status = "ok",
     !.pvalues = Flatten([b \in DOMAIN rs |-> rs[b].pvalues], 1),
     !.rho1 = Flatten([b \in DOMAIN rs |-> rs[b].rho1], 1),
     !.e2 = Flatten([b \in DOMAIN rs |-> rs[b].e2], 1),
     !.g2 = Flatten([b \in DOMAIN rs |-> rs[b].g2], 1),
     !.eps2 = Flatten([b \in DOMAIN rs |-> rs[b].eps2], 1),
     !.tests = Flatten([b \in DOMAIN rs |-> rs[b].tests], 1),
     !.restricted = UNION {rs[b].restricted : b \in DOMAIN rs}]

\* the fields of a context after scan_interaction returned: E0 is a local,
\* the scan assigns no attribute of self
ObjAfterScanInteractionStored(o, idx_E) == [o EXCEPT !.E0 = Take(o.E0, idx_E)]
ObjAfterScanInteraction(o, idx_E) == o

\* StructLMM2.scan_interaction(G, idx_E, idx_G): the sequential loop over the
\* columns, with E1 = self._E[idx_E, :] and gtest = g.ravel()[idx_G]
StructScanInteraction(o, G, idx_E, idx_G) ==
    LET t == [i \in 1..Len(G) |->
                 SnpScore(G[i], Take(Rows(G[i], "None"), idx_G), o.W,
                          Take(o.E0, idx_E), o.rho1, o.Sigma_qs, o.y)]
    IN  IF \E i \in 1..Len(G) : t[i].raised THEN Raised("scan_interaction")
        ELSE [NoRet EXCEPT
              !.op = "scan_interaction", !.status = "ok",
              !.pvalues = [i \in 1..Len(G) |-> t[i].pval],
              !.rho1 = [i \in 1..Len(G) |-> t[i].rho1],
              !.e2 = [i \in 1..Len(G) |-> t[i].e2],
              !.g2 = [i \in 1..Len(G) |-> t[i].g2],
              !.eps2 = [i \in 1..Len(G) |-> t[i].eps2],
              !.tests = [i \in 1..Len(G) |-> t[i].ss],
              !.restricted = UNION {t[i].restricted : i \in 1..Len(G)}]

\* ------------------------------------------------------- effect sizes
\* A minor allele frequency is an integer number of 1/MafUnit; compute_maf
\* returns minimum(freq, 1 - freq), at most MafHalf.
MafUnit == 4
MafHalf == 2

\* the float inf, greater than every finite factor
Inf == FlOne * FlOne * FlOne

\* normalization = 1 / sqrt(2 * p * (1 - p)): a float division, inf at a
\* zero divisor
Normalization(p) ==
    LET d == 2 * p * (MafUnit - p)
    IN  IF d = 0 THEN Inf
        ELSE (MafUnit * FlOne * Isqrt(FlOne)) \div Isqrt(d * FlOne)

\* gE = g * E0: the context matrix with row k scaled by g[k], named after
\* its operands
GTimesE(g, E0) == "g" \o ToString(g) \o "*" \o E0.mat

\* hSigma_p of predict_interaction and estimate_aggregate_environment for the
\* column g: locals keyed by rho1,
\* concatenate([a * gE] + [b * L for L in self._Ls]) (self._G in StructLMM2)
PredictHalfSigma(o, g) ==
    [r \in Range(o.rho1) |-> HalfSigma(GTimesE(g, o.E0), o.Ls, r)]

\* the per-rho decompositions predict_interaction builds for the column g:
\* Sigma_qs[rho1] = economic_qs_linear(hSigma_p[rho1])
PredictSigmaQs(o, g) ==
    [r \in Range(o.rho1) |-> EconomicQs(PredictHalfSigma(o, g)[r])]

\* the loop body of predict_interaction for the column g with MAF p: the
\* grid search of the mean model [W | g | E0] (restricted ML), then the
\* effect sizes.  CellRegMap fits with its local decompositions, StructLMM2
\* with the cached ones.  StructLMM2 then builds
\* hSigma_pstar0 = concatenate([b * Gi for Gi in self._G], axis=1), which
\* raises ValueError when the context was built without G (an empty list).
PredictSnp(o, g, p) ==
    LET M == DesignOf(o.W, g, o.E0.mat)
        qs == IF o.cls = "CellRegMap" THEN PredictSigmaQs(o, g) ELSE o.Sigma_qs
        fits == [k \in DOMAIN o.rho1 |-> LMMFit(o.y, M, qs[o.rho1[k]], TRUE)]
        gs == GridSearch(o.rho1, fits)
        no_pstar0 == o.cls = "StructLMM2" /\ Len(o.Ls) = 0
    IN  [raised |-> gs.raised \/ no_pstar0,
         rho1 |-> gs.best.rho1,
         sigma2_gxe |-> gs.best.lmm.v0 * gs.best.rho1,
         norm |-> Normalization(p),
         restricted |-> {fits[k].restricted : k \in DOMAIN fits},
         hsigma |-> PredictHalfSigma(o, g),
         fit_qs |-> [r \in Range(o.rho1) |-> qs[r]],
         solve_qs |-> IF gs.raised THEN NoLmm.QS
                      ELSE EconomicQs(PredictHalfSigma(o, g)[gs.best.rho1])]

\* predict_interaction(G, MAF): the loop over the columns, then
\* return (asarray(beta_g_s), stack(beta_gxe_s).T); numpy's stack raises
\* ValueError on the empty list a G without columns leaves
PredictInteraction(o, G, MAF) ==
    LET t == [i \in 1..Len(G) |-> PredictSnp(o, G[i], MAF[i])]
    IN  IF Len(G) = 0 \/ (\E i \in 1..Len(G) : t[i].raised)
        THEN Raised("predict_interaction")
        ELSE [NoRet EXCEPT
              !.op = "predict_interaction", !.status = "ok",
              !.rho1 = [i \in 1..Len(G) |-> t[i].rho1],
              !.e2 = [i \in 1..Len(G) |-> t[i].sigma2_gxe],
              !.norm = [i \in 1..Len(G) |-> t[i].norm],
              !.hsigma = [i \in 1..Len(G) |-> t[i].hsigma],
              !.fit_qs = [i \in 1..Len(G) |-> t[i].fit_qs],
              !.solve_qs = [i \in 1..Len(G) |-> t[i].solve_qs],
              !.restricted = UNION {t[i].restricted : i \in 1..Len(G)}]

\* estimate_aggregate_environment(g): the grid search of [W | g | E0] with
\* the cached decompositions (restricted ML)
EstimateAggregateEnvironment(o, g) ==
    LET M == DesignOf(o.W, g, o.E0.mat)
        fits_qs == o.Sigma_qs
        fits == [k \in DOMAIN o.rho1 |->
                    LMMFit(o.y, M, fits_qs[o.rho1[k]], TRUE)]
        gs == GridSearch(o.rho1, fits)
    IN  IF gs.raised THEN Raised("estimate_aggregate_environment")
        ELSE [NoRet EXCEPT
              !.op = "estimate_aggregate_environment", !.status = "ok",
              !.rho1 = <<gs.best.rho1>>,
              !.e2 = <<gs.best.lmm.v0 * gs.best.rho1>>,
              !.hsigma = <<PredictHalfSigma(o, g)>>,
              !.fit_qs = <<[r \in Range(o.rho1) |-> fits_qs[r]]>>,
              !.solve_qs = <<EconomicQs(PredictHalfSigma(o, g)[gs.best.rho1])>>,
              !.restricted = {fits[k].restricted : k \in DOMAIN fits}]

\* the fields of a context after predict_interaction returned: hSigma_p and
\* Sigma_qs are locals of the call, the cache of self is not written
ObjAfterPredictStored(o, G) ==
    IF Len(G) = 0 THEN o
    ELSE [o EXCEPT !.Sigma_qs =
             [r \in Range(o.rho1) |-> EconomicQs(HalfSigma("gE", o.Ls, r))]]
ObjAfterPredict(o, G) == o

\* ------------------------------------------------------- module functions
\* the number of columns of E: get_L_values returns one factor per column
ECols == 2

\* get_L_values(hK, E): [ddot(us[:, i], hK) for i in range(us.shape[1])]
GetLValues(hK, E) == [i \in 1..ECols |-> [us |-> <<E, i>>, hK |-> hK]]

\* CellRegMap(...) as a call: the asserts on the sample counts, then the grid
\* and the cache; NoObj when construction raised
ConstructNoHKCheck(y, E, W, Ls, E1, hK, sh) ==
    IF ShapesAccepted([sh EXCEPT !.hK = NoRows])
    THEN [CellRegMapInit(y, E, W, Ls, E1, hK) EXCEPT !.shapes = sh] ELSE NoObj
Construct(y, E, W, Ls, E1, hK, sh) ==
    IF ShapesAccepted(sh)
    THEN [CellRegMapInit(y, E, W, Ls, E1, hK) EXCEPT !.shapes = sh] ELSE NoObj

\* the sample counts of arguments that all agree with y
AgreeingShapes(W, Ls, E1, hK) ==
    [W |-> IF W = "None" THEN NoRows ELSE SameRows,
     E |-> SameRows,
     E1 |-> IF E1 = "None" THEN NoRows ELSE SameRows,
     Ls |-> IF Len(Ls) = 0 THEN NoRows ELSE SameRows,
     hK |-> IF hK = "None" THEN NoRows ELSE SameRows]

\* crm = CellRegMap(y, W, E, hK=hK) in run_association and
\* run_association_fast: the second positional parameter of __init__ is E
\* and the third is W
RunAssociationContext(y, W, E, hK) ==
    Construct(y, W, E, <<>>, "None", hK, AgreeingShapes(E, <<>>, "None", hK))

\* crm = CellRegMap(y=y, E=E, W=W, E1=E1, Ls=Ls) in run_interaction
RunInteractionContext(y, E, W, hK) ==
    LET Ls == IF hK = "None" THEN <<>> ELSE GetLValues(hK, E)
    IN  Construct(y, E, W, Ls, E, "None", AgreeingShapes(W, Ls, E, "None"))

\* crm.scan_interaction(G, idx_G) in run_interaction: the second positional
\* parameter of scan_interaction is idx_E
RunInteractionCall(idx_G) ==
    [idx_E |-> idx_G, idx_G |-> "None", via |-> "run_interaction",
     arg_idx_G |-> idx_G, seen_perm |-> FALSE, shapes |-> NoShapes]

\* ------------------------------------------------------------ state machine
VARIABLES
    obj,      \* the analysis context (CellRegMap or StructLMM2), NoObj before
    G,        \* the genotype matrix of the calls: a sequence of columns
    cores,    \* joblib.cpu_count()
    pc,       \* "idle", or the scan whose tasks are in flight:
              \* "scan_interaction" (batches) or "scan_association" (columns)
    results,  \* the slots of joblib.Parallel: per task, Pending or its result
    ret,      \* what the last call returned
    prev,     \* what the call before it returned
    call,     \* the arguments of the last call
    fn        \* the pure function under check: its inputs and its output

vars == <<obj, G, cores, pc, results, ret, prev, call, fn>>

NoFn == [name |-> "none"]

\* The arguments of a call: the indices scan_interaction received, the
\* function that made the call (via) with the idx_G it was given, whether
\* the scan_interaction before it on this context was given an index, and
\* the sample counts given to a constructor.
NoCall == [idx_E |-> "None", idx_G |-> "None", via |-> "none",
           arg_idx_G |-> "None", seen_perm |-> FALSE, shapes |-> NoShapes]

RECURSIVE SeqsUpTo(_, _)
SeqsUpTo(S, n) ==
    IF n = 0 THEN {<<>>}
    ELSE SeqsUpTo(S, n - 1) \cup
         {Append(s, x) : s \in {t \in SeqsUpTo(S, n - 1) : Len(t) = n - 1}, x \in S}

Genotypes == 1..MaxGeno
LsChoices == {<<>>, GetLValues("hK", "E")}

\* an index array of a permutation test, or None
Idx == {"None", "pi"}

\* The arguments of one construction of a CellRegMap: Ls, E1 and hK, and the
\* sample counts of all the arguments.  In AgreeingCtorArgs every argument
\* has the sample count of y; in CtorArgs one given argument may disagree.
CtorChoices ==
    {[Ls |-> Ls, E1 |-> "None", hK |-> hK] : Ls \in LsChoices, hK \in {"None", "hK"}}
    \cup {[Ls |-> <<>>, E1 |-> "E1", hK |-> "None"]}

ArgNames == {"W", "E", "E1", "Ls", "hK"}

AgreeingCtorArgs ==
    {[Ls |-> c.Ls, E1 |-> c.E1, hK |-> c.hK,
      shapes |-> AgreeingShapes("W", c.Ls, c.E1, c.hK)] :
        c \in {d \in CtorChoices : d.E1 = "None"}}

CtorArgs ==
    {[Ls |-> c.Ls, E1 |-> c.E1, hK |-> c.hK,
      shapes |-> AgreeingShapes("W", c.Ls, c.E1, c.hK)] : c \in CtorChoices}
    \cup {a \in {[Ls |-> c.Ls, E1 |-> c.E1, hK |-> c.hK,
                   shapes |-> [AgreeingShapes("W", c.Ls, c.E1, c.hK)
                                  EXCEPT ![bad] = OtherRows]] :
                      c \in CtorChoices, bad \in ArgNames} :
              \A k \in ArgNames :
                  AgreeingShapes("W", a.Ls, a.E1, a.hK)[k] = NoRows =>
                      a.shapes[k] = NoRows}

Init ==
    /\ obj = NoObj
    /\ G \in SeqsUpTo(Genotypes, MaxSnps)
    /\ cores \in 1..MaxCores
    /\ pc = "idle"
    /\ results = <<>>
    /\ ret = NoRet
    /\ prev = NoRet
    /\ call = NoCall
    /\ fn = NoFn

\* CellRegMap(y, E, W, Ls, E1, hK) with arguments drawn from args
NewCellRegMapWith(args) ==
    /\ pc = "idle"
    /\ \E y \in 0..MaxY, a \in args :
          /\ obj' = Construct(y, "E", "W", a.Ls, a.E1, a.hK, a.shapes)
          /\ call' = [NoCall EXCEPT !.via = "__init__", !.shapes = a.shapes]
          /\ ret' = IF obj'.cls = "none" THEN Raised("__init__")
                    ELSE [NoRet EXCEPT !.op = "__init__", !.status = "ok"]
    /\ prev' = NoRet
    /\ UNCHANGED <<G, cores, pc, results, fn>>

\* A behaviour follows one context: constructing another one from a state
\* that has a context gives the state a fresh behaviour reaches by the same
\* constructor call, so the constructors are taken without a context only.
NewCellRegMap == obj.cls = "none" /\ NewCellRegMapWith(AgreeingCtorArgs)

NewStructLMM2 ==
    /\ pc = "idle" /\ obj.cls = "none"
    /\ \E y \in 0..MaxY, GG \in {<<>>, <<"G1">>} : obj' = StructLMM2Init(y, GG)
    /\ ret' = [NoRet EXCEPT !.op = "__init__", !.status = "ok"]
    /\ prev' = NoRet /\ call' = NoCall
    /\ UNCHANGED <<G, cores, pc, results, fn>>

\* the return of the call before, kept when it was a scan_association
Before == IF ret.op = "scan_association" THEN ret ELSE NoRet

\* a slot of Parallel whose task has not finished
Pending == [pending |-> TRUE]

\* scan_association of the context o up to the dispatch of the tasks: the
\* null grid search, which ends the call when a fit raises, then one task
\* process_snp per column handed to Parallel
ScanAssociationDispatch(o, op) ==
    IF ScanAssociationNull(o).raised
    THEN /\ ret' = Raised(op)
         /\ pc' = "idle" /\ results' = <<>>
    ELSE /\ ret' = NoRet
         /\ pc' = "scan_association"
         /\ results' = [i \in 1..Len(G) |-> Pending]

\* CellRegMap.scan_association(G) up to the dispatch of the tasks
ScanAssociationStart ==
    /\ pc = "idle" /\ obj.cls = "CellRegMap"
    /\ ScanAssociationDispatch(obj, "scan_association")
    /\ prev' = Before
    /\ call' = NoCall
    /\ UNCHANGED <<obj, G, cores, fn>>

\* one worker runs process_snp on its column; the tasks finish in any order
ProcessSnpWorker(i) ==
    /\ pc = "scan_association"
    /\ results[i] = Pending
    /\ results' = [results EXCEPT ![i] =
          ProcessSnp(i - 1, G, obj.W, obj.y, ScanAssociationQS(obj))]
    /\ UNCHANGED <<obj, G, cores, pc, ret, prev, call, fn>>

\* the name under which the scan in flight returns: run_association returns
\* what its scan_association returns
ScanAssociationOp ==
    IF call.via = "run_association" THEN "run_association" ELSE "scan_association"

\* Parallel returns the alternative LMLs in the order of the columns, then
\* lrt_pvalues
ScanAssociationReturn ==
    /\ pc = "scan_association"
    /\ \A i \in DOMAIN results : results[i] # Pending /\ ~results[i].raised
    /\ ret' = [ScanAssociationValue(obj, G, results) EXCEPT !.op = ScanAssociationOp]
    /\ obj' = ObjAfterScan(obj)
    /\ pc' = "idle" /\ results' = <<>>
    /\ UNCHANGED <<G, cores, prev, call, fn>>

\* Parallel re-raises the exception of a task
ScanAssociationRaise ==
    /\ pc = "scan_association"
    /\ \E i \in DOMAIN results : results[i] # Pending /\ results[i].raised
    /\ ret' = Raised(ScanAssociationOp)
    /\ pc' = "idle" /\ results' = <<>>
    /\ UNCHANGED <<obj, G, cores, prev, call, fn>>

CallScanAssociationFast ==
    /\ pc = "idle" /\ obj.cls = "CellRegMap"
    /\ ret' = ScanAssociationFast(obj, G)
    /\ prev' = Before
    /\ obj' = ObjAfterScan(obj)
    /\ call' = NoCall
    /\ UNCHANGED <<G, cores, pc, results, fn>>

\* whether the call that just returned was a scan_interaction given an index
LastScanPermuted ==
    ret.op = "scan_interaction" /\ (call.idx_E # "None" \/ call.idx_G # "None")

\* CellRegMap.scan_interaction(G, idx_E, idx_G) up to the dispatch of the
\* batches, with indices drawn from idxs
ScanInteractionStartWith(idxs) ==
    /\ pc = "idle" /\ obj.cls = "CellRegMap"
    /\ pc' = "scan_interaction"
    /\ results' = [b \in DOMAIN Batches(Len(G), cores) |-> Pending]
    /\ \E idx_E \in idxs, idx_G \in idxs :
          call' = [NoCall EXCEPT !.idx_E = idx_E, !.idx_G = idx_G,
                                 !.via = "scan_interaction",
                                 !.seen_perm = LastScanPermuted]
    /\ ret' = NoRet /\ prev' = NoRet
    /\ UNCHANGED <<obj, G, cores, fn>>

ScanInteractionStart == ScanInteractionStartWith({"None"})

\* one worker runs process_snp_batch on its batch; the batches finish in any order
Worker(b) ==
    /\ pc = "scan_interaction"
    /\ results[b] = Pending
    /\ results' = [results EXCEPT ![b] =
          ProcessSnpBatch(Batches(Len(G), cores)[b], G, obj.W,
                          Take(obj.E0, call.idx_E), obj.rho1, obj.Sigma_qs, obj.y)]
    /\ UNCHANGED <<obj, G, cores, pc, ret, prev, call, fn>>

\* Parallel returns the list of results, in the order of the inputs
ScanInteractionReturn ==
    /\ pc = "scan_interaction"
    /\ \A b \in DOMAIN results : results[b] # Pending /\ ~results[b].raised
    /\ ret' = UnpackResults(results)
    /\ obj' = ObjAfterScanInteraction(obj, call.idx_E)
    /\ pc' = "idle" /\ results' = <<>>
    /\ UNCHANGED <<G, cores, prev, call, fn>>

\* Parallel re-raises the exception of a worker
ScanInteractionRaise ==
    /\ pc = "scan_interaction"
    /\ \E b \in DOMAIN results : results[b] # Pending /\ results[b].raised
    /\ ret' = Raised("scan_interaction")
    /\ pc' = "idle" /\ results' = <<>>
    /\ UNCHANGED <<obj, G, cores, prev, call, fn>>

\* StructLMM2.scan_interaction(G, idx_E, idx_G) with indices drawn from idxs
StructScanInteractionWith(idxs) ==
    /\ pc = "idle" /\ obj.cls = "StructLMM2"
    /\ \E idx_E \in idxs, idx_G \in idxs :
          /\ ret' = StructScanInteraction(obj, G, idx_E, idx_G)
          /\ call' = [NoCall EXCEPT !.idx_E = idx_E, !.idx_G = idx_G,
                                    !.via = "scan_interaction",
                                    !.seen_perm = LastScanPermuted]
          /\ obj' = ObjAfterScanInteraction(obj, idx_E)
    /\ prev' = NoRet
    /\ UNCHANGED <<G, cores, pc, results, fn>>

CallStructScanInteraction == StructScanInteractionWith({"None"})

\* The interaction scans on contexts whose arguments agree: the batches of
\* CellRegMap.scan_interaction on up to MaxSnps columns and MaxCores cores,
\* and the sequential scan of StructLMM2.
Next ==
    \/ NewCellRegMap
    \/ NewStructLMM2
    \/ ScanInteractionStart
    \/ \E b \in DOMAIN results : Worker(b)
    \/ ScanInteractionReturn
    \/ ScanInteractionRaise
    \/ CallStructScanInteraction

Spec == Init /\ [][Next]_vars

\* ------------------------------------------------------ dense linear algebra
\* numpy's @, .T, inv and solve on small dense matrices.  Entries are exact
\* rationals n/d in lowest terms (d > 0), so that an algebraic identity of
\* the real-number result is decided exactly; a matrix is the sequence of
\* its rows.
MaxEntry == 2      \* matrix entries of the inputs are within -MaxEntry..MaxEntry

Abs(a) == IF a < 0 THEN -a ELSE a

RECURSIVE Gcd(_, _)
Gcd(a, b) == IF b = 0 THEN a ELSE Gcd(b, a % b)

Rat(n, d) ==
    LET g == Gcd(Abs(n), Abs(d))
        sg == IF d < 0 THEN -1 ELSE 1
    IN  [n |-> (sg * n) \div g, d |-> (sg * d) \div g]

RInt(k) == [n |-> k, d |-> 1]
\* a sum is taken over the least common denominator and a product with the
\* common factors cancelled first, so that the intermediate integers stay
\* small
RAdd(a, b) ==
    IF a.d = 1 /\ b.d = 1 THEN [n |-> a.n + b.n, d |-> 1]
    ELSE LET g == Gcd(a.d, b.d)
         IN  Rat(a.n * (b.d \div g) + b.n * (a.d \div g), (a.d \div g) * b.d)
RSub(a, b) == RAdd(a, [n |-> -b.n, d |-> b.d])
RMul(a, b) ==
    IF a.d = 1 /\ b.d = 1 THEN [n |-> a.n * b.n, d |-> 1]
    ELSE LET g1 == Gcd(Abs(a.n), b.d)
             g2 == Gcd(Abs(b.n), a.d)
         IN  Rat((a.n \div g1) * (b.n \div g2), (a.d \div g2) * (b.d \div g1))
RDiv(a, b) == RMul(a, Rat(b.d, b.n))
RLeq(a, b) == a.n * b.d <= b.n * a.d

\* A matrix held as an array: the rows and entries of M, each computed once.
Array(M) ==
    LET RECURSIVE Entries(_, _)
        Entries(f, k) == IF k = 0 THEN <<>> ELSE Append(Entries(f, k - 1), f[k])
    IN  Entries([i \in 1..Len(M) |-> Entries(M[i], Len(M[i]))], Len(M))

\* asarray(A, float) of a matrix of integers
MatOf(A) == [i \in DOMAIN A |-> [j \in DOMAIN A[i] |-> RInt(A[i][j])]]

RECURSIVE RSumTo(_, _)
RSumTo(f, k) == IF k = 0 THEN RInt(0) ELSE RAdd(RSumTo(f, k - 1), f[k])

\* A @ B
MatMul(A, B) ==
    [i \in 1..Len(A) |->
        [j \in 1..Len(B[1]) |->
            RSumTo([k \in 1..Len(B) |-> RMul(A[i][k], B[k][j])], Len(B))]]

\* A.T
Transpose(A) == [j \in 1..Len(A[1]) |-> [i \in 1..Len(A) |-> A[i][j]]]

\* A - B and A + B
MatSub(A, B) == [i \in DOMAIN A |-> [j \in DOMAIN A[i] |-> RSub(A[i][j], B[i][j])]]
MatAdd(A, B) == [i \in DOMAIN A |-> [j \in DOMAIN A[i] |-> RAdd(A[i][j], B[i][j])]]

\* A * B, entry by entry
Hadamard(A, B) == [i \in DOMAIN A |-> [j \in DOMAIN A[i] |-> RMul(A[i][j], B[i][j])]]

ZeroMat(r, c) == [i \in 1..r |-> [j \in 1..c |-> RInt(0)]]

\* the determinant of a square matrix; from three rows on it is expanded
\* along the first row, minor(c) being A without its first row and column c
RECURSIVE Det(_)
Det(A) ==
    IF Len(A) = 1 THEN A[1][1]
    ELSE IF Len(A) = 2
    THEN RSub(RMul(A[1][1], A[2][2]), RMul(A[1][2], A[2][1]))
    ELSE LET minor(c) ==
                 Array([i \in 1..(Len(A) - 1) |->
                           [j \in 1..(Len(A) - 1) |->
                               A[i + 1][IF j < c THEN j ELSE j + 1]]])
         IN  RSumTo([j \in 1..Len(A) |->
                        RMul(RInt(IF j % 2 = 1 THEN 1 ELSE -1),
                             RMul(A[1][j], Det(minor(j))))],
                    Len(A))

\* inv and solve raise LinAlgError on a singular matrix
Singular(A) == Det(A).n = 0

\* numpy.linalg.inv(A) of a non-singular square matrix; from three rows on,
\* the transposed cofactors over the determinant, minor(r, c) being A
\* without its row r and its column c
Inv(A) ==
    IF Len(A) = 1 THEN <<<<RDiv(RInt(1), A[1][1])>>>>
    ELSE LET dt == Det(A)
             minor(r, c) ==
                 Array([i \in 1..(Len(A) - 1) |->
                           [j \in 1..(Len(A) - 1) |->
                               A[IF i < r THEN i ELSE i + 1][IF j < c THEN j ELSE j + 1]]])
         IN  IF Len(A) = 2
             THEN <<<<RDiv(A[2][2], dt), RDiv(RSub(RInt(0), A[1][2]), dt)>>,
                    <<RDiv(RSub(RInt(0), A[2][1]), dt), RDiv(A[1][1], dt)>>>>
             ELSE Array([i \in 1..Len(A) |->
                            [j \in 1..Len(A) |->
                                RDiv(RMul(RInt(IF (i + j) % 2 = 0 THEN 1 ELSE -1),
                                          Det(minor(j, i))), dt)]])

\* numpy.linalg.solve(A, B)
Solve(A, B) == MatMul(Inv(A), B)

\* compute_P(X, K): KiX = solve(K, X);
\* return inv(K) - KiX @ solve(X.T @ KiX, KiX.T)
ComputeP(X, K) ==
    IF Singular(K) THEN [raised |-> TRUE, P |-> <<>>]
    ELSE LET KiX == Solve(K, X)
             XtKiX == MatMul(Transpose(X), KiX)
         IN  IF Singular(XtKiX) THEN [raised |-> TRUE, P |-> <<>>]
             ELSE [raised |-> FALSE,
                   P |-> MatSub(Inv(K), MatMul(KiX, Solve(XtKiX, Transpose(KiX))))]

\* -------------------------------------------- the projection of the score test
\* QSCov, PMat and P_matrix are imported from the package's _math module
\* (from ._math import PMat, QSCov, ScoreStatistic); they are modelled here
\* by their contracts.
\*
\* P_matrix(X, K): the dense projection
\*   P = K^-1 - K^-1 X (X^T K^-1 X)^-1 X^T K^-1
PMatrix(X, K) ==
    IF Singular(K) THEN [raised |-> TRUE, P |-> <<>>]
    ELSE LET Ki == Array(Inv(K))
             XtKi == Array(MatMul(Array(Transpose(X)), Ki))
             XtKiX == Array(MatMul(XtKi, X))
             KiX == Array(Transpose(XtKi))
         IN  IF Singular(XtKiX) THEN [raised |-> TRUE, P |-> <<>>]
             ELSE [raised |-> FALSE,
                   P |-> Array(MatSub(Ki, Array(MatMul(Array(MatMul(KiX, Inv(XtKiX))),
                                                       XtKi))))]

\* P.dot(v) of P = PMat(qscov, X), where qscov = QSCov(Q0, S0, a, b) stands
\* for Cov = a Q0 diag(S0) Q0^T + b I and keeps the factors only (Q0 has
\* orthonormal columns, S0 the eigenvalues that are not zero):
\*   qscov.solve(u) = Cov^-1 u = Q0 ((Q0^T u) / (a S0 + b)) + (u - Q0 Q0^T u) / b,
\*     the spectral identity, which never forms Cov;
\*   KiX = qscov.solve(X);
\*   P.dot(v) = qscov.solve(v) - KiX @ solve(X^T KiX, KiX^T v),
\*     where the small solve raises on a singular X^T KiX (linearly
\*     dependent columns of X).
PMatDotOls(P, v) ==
    LET KiX == P.X
        XtKiX == Array(MatMul(Array(Transpose(P.X)), KiX))
        c == P.qscov
        Q0 == c.QS.Q0
        Qt == Array(Transpose(Q0))
        Di == Array([i \in DOMAIN c.QS.S0 |->
                        [j \in DOMAIN c.QS.S0 |->
                            IF i = j THEN Rat(1, c.v0 * c.QS.S0[i] + c.v1)
                            ELSE RInt(0)]])
        qsolve(u) ==
            LET Qtu == Array(MatMul(Qt, u))
                rest == Array(MatSub(u, Array(MatMul(Q0, Qtu))))
            IN  Array(MatAdd(Array(MatMul(Q0, Array(MatMul(Di, Qtu)))),
                             [i \in DOMAIN rest |->
                                 [j \in DOMAIN rest[i] |->
                                     RMul(Rat(1, c.v1), rest[i][j])]]))
    IN  IF Singular(XtKiX) THEN [raised |-> TRUE, val |-> <<>>]
        ELSE [raised |-> FALSE,
              val |-> Array(MatSub(qsolve(v),
                                   Array(MatMul(KiX,
                                       Array(MatMul(Inv(XtKiX),
                                           Array(MatMul(Array(Transpose(KiX)), v))))))))]
PMatDot(P, v) ==
    LET c == P.qscov
        Q0 == c.QS.Q0
        Qt == Array(Transpose(Q0))
        Di == Array([i \in DOMAIN c.QS.S0 |->
                        [j \in DOMAIN c.QS.S0 |->
                            IF i = j THEN Rat(1, c.v0 * c.QS.S0[i] + c.v1)
                            ELSE RInt(0)]])
        qsolve(u) ==
            LET Qtu == Array(MatMul(Qt, u))
                rest == Array(MatSub(u, Array(MatMul(Q0, Qtu))))
            IN  Array(MatAdd(Array(MatMul(Q0, Array(MatMul(Di, Qtu)))),
                             [i \in DOMAIN rest |->
                                 [j \in DOMAIN rest[i] |->
                                     RMul(Rat(1, c.v1), rest[i][j])]]))
        KiX == qsolve(P.X)
        XtKiX == Array(MatMul(Array(Transpose(P.X)), KiX))
    IN  IF Singular(XtKiX) THEN [raised |-> TRUE, val |-> <<>>]
        ELSE [raised |-> FALSE,
              val |-> Array(MatSub(qsolve(v),
                                   Array(MatMul(KiX,
                                       Array(MatMul(Inv(XtKiX),
                                           Array(MatMul(Array(Transpose(KiX)), v))))))))]

\* process_snp_batch, from the column g to the projection:
\*   X = np.hstack((W, g)); the grid search over rho1_values;
\*   lmm = best["lmm"]; (Q0,), S0 = Sigma_qs[best["rho1"]]
\*   qscov = QSCov(Q0, S0, lmm.v0, lmm.v1); P = PMat(qscov, X)
\* fits[k] is the outcome of LMM(y, X, Sigma_qs[rho1_values[k]]).fit(); a fit
\* that raises ends the test of the column before any projection is built.
SnpProjection(W, g, rho1_values, Sigma_qs, fits) ==
    LET X == Array([i \in DOMAIN W |-> W[i] \o g[i]])
        gs == GridSearch(rho1_values, fits)
        best == gs.best
        lmm == best.lmm
        qscov == QSCov(Sigma_qs[best.rho1], lmm.v0, lmm.v1)
    IN  [raised |-> gs.raised, rho1 |-> best.rho1, P |-> PMat(qscov, X)]

\* score_statistic(X, K, dK) of struct_lmm2.py:
\*   P = compute_P(X, K)
\*   return eigvalsh(sqrtm(P) @ dK @ sqrtm(P)) / 2
\* The name sqrtm is bound by `from numpy import ..., sqrtm, ...`, and numpy
\* exports no sqrtm: the import of the module raises ImportError, and the
\* body, run on its own, raises LinAlgError in compute_P for a singular
\* input and NameError at sqrtm(P) otherwise.  No input returns a value.
ScoreStatisticFn(X, K, dK) ==
    LET P == ComputeP(X, K)
    IN  [raised |-> TRUE,
         error |-> IF P.raised THEN "LinAlgError" ELSE "NameError",
         shape |-> <<>>, val |-> <<>>]

\* a call score_statistic(*args): the function has three parameters, any
\* other number of positional arguments is a TypeError
CallScoreStatistic(args) ==
    IF Len(args) # 3
    THEN [raised |-> TRUE, error |-> "TypeError", shape |-> <<>>, val |-> <<>>]
    ELSE ScoreStatisticFn(args[1], args[2], args[3])

\* ddot(v, M) of numpy_sugar: diag(v) @ M
DdotDense(v, M) ==
    [r \in 1..Len(M) |-> [c \in 1..Len(M[r]) |-> RMul(v[r], M[r][c])]]

\* column j of E and its squared norm
ColOf(E, j) == [i \in 1..Len(E) |-> E[i][j]]
SqNorm(E, j) == MatMul(Transpose(E), E)[j][j]

\* the columns economic_svd(E) retains: the singular values above its
\* threshold, which for a matrix of orthogonal columns are the norms of the
\* non-zero columns
Retained(E) == {j \in 1..Len(E[1]) : SqNorm(E, j).n # 0}

\* U * S[newaxis, :] of economic_svd(E) for a matrix E whose columns are
\* orthogonal with distinct norms: E = U S Vt with Vt a signed permutation,
\* so column i of U * S is, up to the sign sg[i] LAPACK gives it, the column
\* of E with the i-th greatest norm
EconomicSvdUS(E, sg) ==
    LET pos(j) == 1 + Cardinality({k \in Retained(E) : ~RLeq(SqNorm(E, k), SqNorm(E, j))})
        col(i) == CHOOSE j \in Retained(E) : pos(j) = i
    IN  [r \in 1..Len(E) |->
            [i \in 1..Cardinality(Retained(E)) |-> RMul(RInt(sg[i]), E[r][col(i)])]]

\* get_L_values(hK, E): U, S, _ = economic_svd(E); us = U * S[newaxis, :];
\* for i in range(us.shape[1]): Ls.append(ddot(us[:, i], hK))
GetLValuesDenseShort(hK, E, sg) ==
    LET us == EconomicSvdUS(E, sg)
    IN  [i \in 1..(Len(us[1]) - 1) |-> DdotDense(ColOf(us, i), hK)]
GetLValuesDense(hK, E, sg) ==
    LET us == EconomicSvdUS(E, sg)
    IN  [i \in 1..Len(us[1]) |-> DdotDense(ColOf(us, i), hK)]

\* -------------------------------------------------------------- compute_maf
\* a missing dosage (NaN) in a genotype matrix of dosages 0, 1, 2
NaN == -1
\* the float nan, the result of 0 / 0
NanFloat == [n |-> 0, d |-> 0]
IsNanFloat(a) == a.d = 0

\* nansum(X, axis=0)[j]: the sum of column j over the rows 1..k, NaN as zero
RECURSIVE NanSum(_, _, _)
NanSum(X, j, k) ==
    IF k = 0 THEN 0
    ELSE NanSum(X, j, k - 1) + (IF X[k][j] = NaN THEN 0 ELSE X[k][j])

\* logical_not(isnan(X)).sum(axis=0)[j]
NonMissingCount(X, j) == Cardinality({i \in 1..Len(X) : X[i][j] # NaN})

\* minimum(a, b) of two floats: nan if either is nan
Minimum(a, b) ==
    IF IsNanFloat(a) \/ IsNanFloat(b) THEN NanFloat
    ELSE IF RLeq(a, b) THEN a ELSE b

\* allele_sum / (2 * non_missing_count): 0 / 0 is nan
Freq(allele_sum, non_missing_count) ==
    IF non_missing_count = 0 THEN NanFloat
    ELSE Rat(allele_sum, 2 * non_missing_count)

\* compute_maf(X) of an array X: freq = allele_sum / (2 * non_missing_count);
\* maf = minimum(freq, 1 - freq), one entry per column
ComputeMafAllRows(X) ==
    [j \in 1..Len(X[1]) |->
        LET freq == Freq(NanSum(X, j, Len(X)), Len(X))
        IN  Minimum(freq, IF IsNanFloat(freq) THEN NanFloat
                          ELSE RSub(RInt(1), freq))]
ComputeMaf(X) ==
    [j \in 1..Len(X[1]) |->
        LET freq == Freq(NanSum(X, j, Len(X)), NonMissingCount(X, j))
        IN  Minimum(freq, IF IsNanFloat(freq) THEN NanFloat
                          ELSE RSub(RInt(1), freq))]

\* ------------------------------------------------- the whole interface
\* Every public operation, on one context per behaviour: the constructors
\* with sample counts that may disagree, the association scans with their
\* tasks in flight, the interaction scans with permutation indices, the
\* effect-size operations, the run_* functions and estimate_betas.
InitApi ==
    /\ obj = NoObj
    /\ G \in SeqsUpTo(Genotypes, MaxApiSnps)
    /\ cores = 1
    /\ pc = "idle"
    /\ results = <<>>
    /\ ret = NoRet
    /\ prev = NoRet
    /\ call = NoCall
    /\ fn = NoFn

ApiNewCellRegMap == obj.cls = "none" /\ NewCellRegMapWith(CtorArgs)

ApiNewStructLMM2 == obj.cls = "none" /\ NewStructLMM2

ApiScanInteractionStart == ScanInteractionStartWith(Idx)

ApiStructScanInteraction == StructScanInteractionWith(Idx)

\* run_interaction(y, E, G, W, hK=hK, idx_G=idx_G) up to the dispatch of the
\* batches: the context is built, then scan_interaction is called
RunInteractionStart ==
    /\ pc = "idle" /\ obj.cls = "none"
    /\ pc' = "scan_interaction"
    /\ results' = [b \in DOMAIN Batches(Len(G), cores) |-> Pending]
    /\ \E y \in 0..MaxY, hK \in {"None", "hK"}, idx_G \in Idx :
          /\ obj' = RunInteractionContext(y, "E", "W", hK)
          /\ call' = RunInteractionCall(idx_G)
    /\ ret' = NoRet /\ prev' = NoRet
    /\ UNCHANGED <<G, cores, fn>>

\* predict_interaction(G, MAF), every column with the same MAF p
CallPredictInteraction ==
    /\ pc = "idle" /\ obj.cls \in {"CellRegMap", "StructLMM2"}
    /\ \E p \in 0..MafHalf :
          ret' = PredictInteraction(obj, G, [i \in 1..Len(G) |-> p])
    /\ obj' = ObjAfterPredict(obj, G)
    /\ prev' = NoRet /\ call' = NoCall
    /\ UNCHANGED <<G, cores, pc, results, fn>>

CallEstimateAggregateEnvironment ==
    /\ pc = "idle" /\ obj.cls \in {"CellRegMap", "StructLMM2"}
    /\ \E g \in Genotypes : ret' = EstimateAggregateEnvironment(obj, g)
    /\ prev' = NoRet /\ call' = NoCall
    /\ UNCHANGED <<obj, G, cores, pc, results, fn>>

\* run_association(y, W, E, G, hK) up to the dispatch of the tasks: the
\* context is built, then scan_association is called
RunAssociationStart ==
    /\ pc = "idle" /\ obj.cls = "none"
    /\ \E y \in 0..MaxY, hK \in {"None", "hK"} :
          /\ obj' = RunAssociationContext(y, "W", "E", hK)
          /\ ScanAssociationDispatch(obj', "run_association")
    /\ prev' = NoRet
    /\ call' = [NoCall EXCEPT !.via = "run_association"]
    /\ UNCHANGED <<G, cores, fn>>

\* run_association_fast(y, W, E, G, hK)
RunAssociationFast ==
    /\ pc = "idle" /\ obj.cls = "none"
    /\ \E y \in 0..MaxY, hK \in {"None", "hK"} :
          /\ obj' = RunAssociationContext(y, "W", "E", hK)
          /\ ret' = [ScanAssociationFast(obj', G) EXCEPT !.op = "run_association_fast"]
    /\ prev' = NoRet
    /\ call' = [NoCall EXCEPT !.via = "run_association_fast"]
    /\ UNCHANGED <<G, cores, pc, results, fn>>

\* The column a genotype token stands for, as the dosages of the SameRows
\* samples: a monomorphic column, a polymorphic one, and a column with a
\* missing dosage (the non-finite column, on which every fit raises).
GenotypeColumn(g) ==
    IF g % 3 = 1 THEN <<2, 2>> ELSE IF g % 3 = 2 THEN <<1, 2>> ELSE <<NaN, 1>>

\* the genotype matrix of a sequence of columns, as the sequence of its rows
GenotypeMatrix(cols) ==
    [i \in 1..SameRows |-> [j \in 1..Len(cols) |-> GenotypeColumn(cols[j])[i]]]

\* maf = compute_maf(G), each frequency as a number of 1/MafUnit
MafOfColumns(cols) ==
    LET maf == ComputeMaf(GenotypeMatrix(cols))
    IN  [j \in 1..Len(cols) |-> (maf[j].n * MafUnit) \div maf[j].d]

\* crm = CellRegMap(y=y, E=E, W=W, E1=E1, Ls=Ls) in estimate_betas, with
\* E1 = E2 = E and Ls = get_L_values(hK, E2) when hK is given
EstimateBetasContext(y, W, E, hK) ==
    LET Ls == IF hK = "None" THEN <<>> ELSE GetLValues(hK, E)
    IN  Construct(y, E, W, Ls, E, "None", AgreeingShapes(W, Ls, E, "None"))

\* estimate_betas(y, W, E, G, maf, hK=hK): the context is built, maf is
\* compute_maf(G) when it is not given, and the function returns what
\* crm.predict_interaction(G, maf) returns
EstimateBetas ==
    /\ pc = "idle" /\ obj.cls = "none"
    /\ \E y \in 0..MaxY, hK \in {"None", "hK"}, given \in BOOLEAN, p \in 0..MafHalf :
          /\ obj' = EstimateBetasContext(y, "W", "E", hK)
          /\ ret' = PredictInteraction(obj', G,
                        IF given THEN [i \in 1..Len(G) |-> p] ELSE MafOfColumns(G))
    /\ prev' = NoRet
    /\ call' = [NoCall EXCEPT !.via = "estimate_betas"]
    /\ UNCHANGED <<G, cores, pc, results, fn>>

NextApi ==
    \/ ApiNewCellRegMap
    \/ ApiNewStructLMM2
    \/ ScanAssociationStart
    \/ \E i \in DOMAIN results : ProcessSnpWorker(i)
    \/ ScanAssociationReturn
    \/ ScanAssociationRaise
    \/ CallScanAssociationFast
    \/ ApiScanInteractionStart
    \/ RunInteractionStart
    \/ \E b \in DOMAIN results : Worker(b)
    \/ ScanInteractionReturn
    \/ ScanInteractionRaise
    \/ ApiStructScanInteraction
    \/ CallPredictInteraction
    \/ CallEstimateAggregateEnvironment
    \/ RunAssociationStart
    \/ RunAssociationFast
    \/ EstimateBetas

SpecApi == InitApi /\ [][NextApi]_vars

\* ------------------------------------------- the pure functions, on their own
\* The grids the constructors build.
Grids == {<<RhoOne>>, Linspace(CellRegMapGridLen), Linspace(StructLMM2GridLen)}

\* The inputs of one grid search: the LML profile over the grid has three
\* levels a, b, c with breakpoints i <= j, and the fit at position r raises
\* (r = 0: no fit raises).
GridInputs ==
    {[name |-> "GridSearch", done |-> FALSE, grid |-> g, i |-> i, j |-> j,
      a |-> a, b |-> b, c |-> c, r |-> r] :
        g \in Grids, i \in 1..(CellRegMapGridLen + 1), j \in 1..(CellRegMapGridLen + 1),
        a \in 0..MaxLevel, b \in 0..MaxLevel, c \in 0..MaxLevel,
        r \in 0..CellRegMapGridLen}

ProfileFits(in) ==
    [k \in DOMAIN in.grid |->
        [raised |-> (k = in.r),
         lml |-> IF k < in.i THEN in.a ELSE IF k < in.j THEN in.b ELSE in.c,
         v0 |-> 1 + (k % 2), v1 |-> 1,
         QS |-> EconomicQs(HalfSigma("E", <<"L1">>, in.grid[k])),
         X |-> Design(1), restricted |-> TRUE]]

LrtInputs ==
    {[name |-> "lrt_pvalues", done |-> FALSE, null_lml |-> n, alt_lmls |-> <<a, b>>] :
        n \in 0..MaxLml, a \in 0..MaxLml, b \in 0..MaxLml}

\* symmetric 2x2 matrices of integers, the positive definite ones among
\* them, and columns of two integers
SymMats ==
    {<<<<a, b>>, <<b, c>>>> : a \in 1..MaxEntry, c \in 1..MaxEntry, b \in -1..1}
PDMats == {K \in SymMats : K[1][1] * K[2][2] - K[1][2] * K[2][1] > 0}
Columns == {<<<<x1>>, <<x2>>>> : x1 \in 0..MaxEntry, x2 \in 0..MaxEntry}
NonZeroColumns == {X \in Columns : X[1][1] # 0 \/ X[2][1] # 0}

\* compute_P(X, K) for a design of one column and a 2x2 covariance that may
\* be singular, and for the shape of the test fixture of the projection:
\* n_samples = 3, n_covariates = 2 and K = v * K0 + eye(n_samples) with
\* K0 = A @ A.T, A having the columns a and b.  The first column of the
\* design is the intercept or (1, 1, 0).
ComputePInputs ==
    {[name |-> "compute_P", done |-> FALSE, X |-> X, K |-> K] :
        X \in Columns, K \in SymMats}
    \cup
    {[name |-> "compute_P", done |-> FALSE,
      X |-> <<<<1, x[1]>>, <<1, x[2]>>, <<w, x[3]>>>>,
      K |-> [i \in 1..3 |->
                [j \in 1..3 |->
                    v * (h[1][i] * h[1][j] + h[2][i] * h[2][j])
                        + (IF i = j THEN 1 ELSE 0)]]] :
        w \in 0..1, x \in [1..3 -> 0..2], v \in 1..MaxEntry,
        h \in {<<<<1, -1, 1>>, <<0, 0, 0>>>>, <<<<1, 0, 0>>, <<0, 1, 1>>>>,
               <<<<1, 1, 0>>, <<0, -1, 1>>>>}}

\* process_snp_batch on three samples: W is the intercept, g a column of
\* dosages, the grid has the two points 0 and 1, and the cache holds a
\* decomposition of rank one at 0 and of rank two at 1, whose Q0 consists
\* of the first columns of the identity or of another orthogonal matrix.
\* The two fits have the LMLs lmls[1] and lmls[2] and variance components
\* that differ between them.
PMatInputs ==
    {[name |-> "PMat", done |-> FALSE, W |-> <<<<1>>, <<1>>, <<1>>>>,
      g |-> <<<<x[1]>>, <<x[2]>>, <<x[3]>>>>,
      Sigma_qs |-> [r \in {0, RhoOne} |->
                      IF r = 0
                      THEN [Q0 |-> Array([i \in 1..3 |-> <<B[i][1]>>]), S0 |-> <<s>>]
                      ELSE [Q0 |-> Array([i \in 1..3 |-> <<B[i][1], B[i][2]>>]),
                            S0 |-> <<s, 1>>]],
      fits |-> [k \in 1..2 |->
                  [raised |-> FALSE, lml |-> lmls[k],
                   v0 |-> (v + k) % (MaxEntry + 1), v1 |-> 1 + ((v + k) % 2)]]] :
        x \in [1..3 -> 0..2], s \in 1..MaxEntry, lmls \in [1..2 -> 0..1],
        v \in 0..1,
        B \in {<<<<RInt(1), RInt(0), RInt(0)>>,
                 <<RInt(0), RInt(1), RInt(0)>>,
                 <<RInt(0), RInt(0), RInt(1)>>>>,
               <<<<Rat(1, 3), Rat(2, 3), Rat(2, 3)>>,
                 <<Rat(2, 3), Rat(1, 3), Rat(-2, 3)>>,
                 <<Rat(2, 3), Rat(-2, 3), Rat(1, 3)>>>>}}

\* score_statistic called with (y, W, K, dK), as its test calls it, or with
\* (W, K, dK), its own parameters
ScoreInputs ==
    {[name |-> "score_statistic", done |-> FALSE, y |-> y, W |-> W, K |-> K,
      dK |-> dK, with_y |-> b] :
        y \in {<<<<1>>, <<y2>>>> : y2 \in 1..MaxEntry},
        W \in {X \in NonZeroColumns : X[1][1] <= 1 /\ X[2][1] <= 1},
        K \in PDMats, dK \in {D \in PDMats : D[1][1] = 1 /\ D[2][2] = 1},
        b \in BOOLEAN}

\* get_L_values(hK, E2) for a kinship square root of one or two columns and
\* an environment matrix of one or two orthogonal columns with distinct norms
\* (with equal norms the singular vectors are not determined); a zero column
\* makes the rank smaller than the number of columns
HalfKinships ==
    {<<<<a>>, <<b>>>> : a \in 1..MaxEntry, b \in 1..MaxEntry}
        \cup {<<<<a, b>>, <<c, 1>>>> : a \in 1..MaxEntry, b \in 0..1, c \in 0..1}
EnvMatrices ==
    ({<<<<a>>, <<b>>>> : a \in -MaxEntry..MaxEntry, b \in -MaxEntry..MaxEntry}
        \ {<<<<0>>, <<0>>>>})
    \cup {E \in {<<<<a, b>>, <<c, d>>>> :
                    a \in -MaxEntry..MaxEntry, b \in -MaxEntry..MaxEntry,
                    c \in -MaxEntry..MaxEntry, d \in -MaxEntry..MaxEntry} :
            /\ E[1][1] * E[1][2] + E[2][1] * E[2][2] = 0
            /\ E[1][1] * E[1][1] + E[2][1] * E[2][1]
                  # E[1][2] * E[1][2] + E[2][2] * E[2][2]}
GetLValuesInputs ==
    {[name |-> "get_L_values", done |-> FALSE, hK |-> hK, E |-> E] :
        hK \in HalfKinships, E \in EnvMatrices}

\* genotype matrices of MaxRows samples and one or two variants
MaxRows == 2
Dosages == {0, 1, 2, NaN}
DosageColumns == [1..MaxRows -> Dosages]
GenotypeMatrices ==
    {[i \in 1..MaxRows |-> <<c[i]>>] : c \in DosageColumns}
        \cup {[i \in 1..MaxRows |-> <<c[i], d[i]>>] :
                c \in DosageColumns, d \in DosageColumns}
ComputeMafInputs ==
    {[name |-> "compute_maf", done |-> FALSE, X |-> X] : X \in GenotypeMatrices}

InitFn ==
    /\ obj = NoObj /\ G = <<>> /\ cores = 1 /\ pc = "fn" /\ results = <<>>
    /\ ret = NoRet /\ prev = NoRet /\ call = NoCall
    /\ \/ fn \in {in \in GridInputs : in.i <= in.j /\ in.j <= Len(in.grid) + 1
                                       /\ in.r <= Len(in.grid)}
       \/ fn \in LrtInputs
       \/ fn \in ComputePInputs
       \/ fn \in PMatInputs
       \/ fn \in ScoreInputs
       \/ fn \in GetLValuesInputs
       \/ fn \in ComputeMafInputs

ApplyGridSearch ==
    /\ fn.name = "GridSearch" /\ ~fn.done
    /\ fn' = [name |-> "GridSearch", done |-> TRUE, in |-> fn,
              out |-> GridSearch(fn.grid, ProfileFits(fn))]
    /\ UNCHANGED <<obj, G, cores, pc, results, ret, prev, call>>

ApplyLrtPvalues ==
    /\ fn.name = "lrt_pvalues" /\ ~fn.done
    /\ fn' = [name |-> "lrt_pvalues", done |-> TRUE, in |-> fn,
              out |-> LrtPvalues(fn.null_lml, fn.alt_lmls, 1)]
    /\ UNCHANGED <<obj, G, cores, pc, results, ret, prev, call>>

ApplyComputeP ==
    /\ fn.name = "compute_P" /\ ~fn.done
    /\ fn' = [name |-> "compute_P", done |-> TRUE, in |-> fn,
              out |-> ComputeP(MatOf(fn.X), MatOf(fn.K))]
    /\ UNCHANGED <<obj, G, cores, pc, results, ret, prev, call>>

ApplyPMat ==
    /\ fn.name = "PMat" /\ ~fn.done
    /\ fn' = [name |-> "PMat", done |-> TRUE, in |-> fn,
              out |-> SnpProjection(MatOf(fn.W), MatOf(fn.g), <<0, RhoOne>>,
                                    fn.Sigma_qs, fn.fits)]
    /\ UNCHANGED <<obj, G, cores, pc, results, ret, prev, call>>

ApplyScoreStatistic ==
    /\ fn.name = "score_statistic" /\ ~fn.done
    /\ fn' = [name |-> "score_statistic", done |-> TRUE, in |-> fn,
              out |-> CallScoreStatistic(
                          IF fn.with_y
                          THEN <<MatOf(fn.y), MatOf(fn.W), MatOf(fn.K), MatOf(fn.dK)>>
                          ELSE <<MatOf(fn.W), MatOf(fn.K), MatOf(fn.dK)>>)]
    /\ UNCHANGED <<obj, G, cores, pc, results, ret, prev, call>>

ApplyGetLValues ==
    /\ fn.name = "get_L_values" /\ ~fn.done
    /\ \E s1 \in {-1, 1} : \E s2 \in {-1, 1} :
          fn' = [name |-> "get_L_values", done |-> TRUE, in |-> fn,
                 out |-> GetLValuesDense(MatOf(fn.hK), MatOf(fn.E), <<s1, s2>>)]
    /\ UNCHANGED <<obj, G, cores, pc, results, ret, prev, call>>

ApplyComputeMaf ==
    /\ fn.name = "compute_maf" /\ ~fn.done
    /\ fn' = [name |-> "compute_maf", done |-> TRUE, in |-> fn,
              out |-> ComputeMaf(fn.X)]
    /\ UNCHANGED <<obj, G, cores, pc, results, ret, prev, call>>

NextFn ==
    \/ ApplyGridSearch
    \/ ApplyLrtPvalues
    \/ ApplyComputeP
    \/ ApplyPMat
    \/ ApplyScoreStatistic
    \/ ApplyGetLValues
    \/ ApplyComputeMaf

SpecFn == InitFn /\ [][NextFn]_vars

\* ------------------------------------------------------------------ claims
\* the greatest LML of a sequence of fits
MaxLmlOf(fits) ==
    CHOOSE v \in {fits[k].lml : k \in DOMAIN fits} :
        \A k \in DOMAIN fits : fits[k].lml <= v

\* the first position, in grid order, whose LML is the greatest
FirstArgMax(fits) ==
    CHOOSE k \in DOMAIN fits :
        /\ fits[k].lml = MaxLmlOf(fits)
        /\ \A j \in 1..(k - 1) : fits[j].lml < MaxLmlOf(fits)

GridSearchDone == fn.name = "GridSearch" /\ fn.done

\* C1: after a grid search whose loop ended, the recorded rho is the first
\* grid point, in grid order, whose LML is the maximum over the whole grid,
\* and the recorded LML and fitted model are those of the fit at that rho.
C1_FirstMaxWins ==
    (GridSearchDone /\ ~fn.out.raised) =>
        LET fits == ProfileFits(fn.in)
            k == FirstArgMax(fits)
        IN  /\ fn.out.best.rho1 = fn.in.grid[k]
            /\ fn.out.best.lml = MaxLmlOf(fits)
            /\ fn.out.best.lmm = fits[k]
            /\ fn.out.best.lmm.QS.qs_of.a2 = fn.out.best.rho1

\* C1 witness: the maximum is first reached after the first grid point and
\* is reached again by a later candidate.
C1_Witness ==
    /\ GridSearchDone /\ ~fn.out.raised
    /\ LET fits == ProfileFits(fn.in)
           k == FirstArgMax(fits)
       IN  /\ k > 1
           /\ \E j \in DOMAIN fits : j > k /\ fits[j].lml = fits[k].lml
           /\ fn.out.best.rho1 = fn.in.grid[k]

\* whether a context was constructed with secondary random-effect structure
HasSecondary(o) == \E r \in DOMAIN o.halfSigma : Len(o.halfSigma[r].sec) > 0

\* the 11 equally spaced points 0, 0.1, ..., 1.0
ElevenPoints == [i \in 1..11 |-> (i - 1) * (RhoOne \div 10)]

\* C2: a context with secondary random-effect structure has the grid of 11
\* equally spaced points of [0,1], a context without has the grid {1.0}.
C2_GridShape ==
    obj.cls # "none" =>
        obj.rho1 = IF HasSecondary(obj) THEN ElevenPoints ELSE <<RhoOne>>

\* what process_snp_batch computes for column i (1-based) of G
ColumnResult(i) ==
    SnpTest(G[i], obj.W, Take(obj.E0, call.idx_E), obj.rho1, obj.Sigma_qs, obj.y)

ScanInteractionReturned ==
    pc = "idle" /\ obj.cls = "CellRegMap" /\ ret.op = "scan_interaction"

\* C3: the arrays scan_interaction returns have, at entry i, the result
\* computed for column i of G, whatever the number of variants, the worker
\* count and the order in which the batches finished.
C3_OutputOrder ==
    (ScanInteractionReturned /\ ret.status = "ok") =>
        /\ Len(ret.pvalues) = Len(G) /\ Len(ret.rho1) = Len(G)
        /\ Len(ret.e2) = Len(G) /\ Len(ret.g2) = Len(G) /\ Len(ret.eps2) = Len(G)
        /\ \A i \in 1..Len(G) :
              /\ ret.pvalues[i] = ColumnResult(i).pval
              /\ ret.rho1[i] = ColumnResult(i).rho1
              /\ ret.e2[i] = ColumnResult(i).e2
              /\ ret.g2[i] = ColumnResult(i).g2
              /\ ret.eps2[i] = ColumnResult(i).eps2

\* C3 witness: a scan of four columns, in two batches of two, whose columns
\* have different results.
C3_Witness ==
    /\ ScanInteractionReturned /\ ret.status = "ok"
    /\ Len(G) = 4 /\ cores = 2
    /\ ret.pvalues[2] # ret.pvalues[3]
    /\ ret.pvalues[1] # ret.pvalues[2]

LrtDone == fn.name = "lrt_pvalues" /\ fn.done

\* C4: every p-value lrt_pvalues returns lies in [eps, 1 - eps] and is
\* neither exactly 0 nor exactly 1.
C4_PvalueBounds ==
    LrtDone =>
        \A i \in DOMAIN fn.out :
            /\ EpsSuperTiny <= fn.out[i] /\ fn.out[i] <= FlOne - EpsTiny
            /\ fn.out[i] # 0 /\ fn.out[i] # FlOne

\* C4 witness: an alternative LML below the null LML, whose survival value
\* 1.0 was clipped to 1 - eps, next to a difference so large that the
\* p-value is at the lower bound eps.
C4_Witness ==
    /\ LrtDone
    /\ fn.in.alt_lmls[1] < fn.in.null_lml
    /\ Chi2Sf(Lrs(fn.in.null_lml, fn.in.alt_lmls[1]), 1) = FlOne
    /\ fn.out[1] = FlOne - EpsTiny
    /\ fn.in.alt_lmls[2] > fn.in.null_lml
    /\ fn.out[2] = EpsSuperTiny

\* an entry that is no p-value: NaN
IsNaN(p) == p \notin 0..FlOne

\* C5: when the fit or test of one variant raises, the scan still returns,
\* with NaN at the position of the failed variant and the result of every
\* other variant at its own position.
C5_FailureIsolated ==
    /\ ScanInteractionReturned =>
          /\ ret.status = "ok"
          /\ Len(ret.pvalues) = Len(G)
          /\ \A i \in 1..Len(G) :
                IF ColumnResult(i).raised THEN IsNaN(ret.pvalues[i])
                ELSE ret.pvalues[i] = ColumnResult(i).pval
    /\ (pc = "idle" /\ ret.op = "scan_association") =>
          /\ ret.status = "ok"
          /\ Len(ret.pvalues) = Len(G)

\* the first position whose LML is the greatest among the fits that did not raise
FirstArgMaxUsable(fits) ==
    CHOOSE k \in DOMAIN fits :
        /\ ~fits[k].raised
        /\ \A j \in DOMAIN fits :
              ~fits[j].raised =>
                  \/ fits[j].lml < fits[k].lml
                  \/ (fits[j].lml = fits[k].lml /\ j >= k)

\* C6: when the optimizer fails at one rho candidate, the candidate is
\* skipped, the grid search continues, and the selected fit is the arg-max
\* over the candidates that did not fail.
C6_FailedCandidateSkipped ==
    (GridSearchDone /\ fn.in.r # 0 /\ Len(fn.in.grid) > 1) =>
        LET fits == ProfileFits(fn.in)
        IN  /\ ~fn.out.raised
            /\ fn.out.best.lmm = fits[FirstArgMaxUsable(fits)]

\* every rho candidate of the grid search of column g raises
AllCandidatesFail(o, g) ==
    \A k \in DOMAIN o.rho1 :
        LMMFit(o.y, Design(g), o.Sigma_qs[o.rho1[k]], TRUE).raised

\* C7: when every rho candidate of a variant fails, the variant is reported
\* as failed, with a NaN p-value, and never as an ordinary p-value.
C7_AllFailIsNaN ==
    (ScanInteractionReturned /\ \E i \in 1..Len(G) : AllCandidatesFail(obj, G[i])) =>
        /\ ret.status = "ok"
        /\ \A i \in 1..Len(G) :
              AllCandidatesFail(obj, G[i]) => IsNaN(ret.pvalues[i])

\* C8: no p-value scan_interaction returns is non-positive or exactly 1: an
\* invalid value of the tail approximation is replaced by the least p-value.
C8_DaviesFallback ==
    (ScanInteractionReturned /\ ret.status = "ok") =>
        \A i \in 1..Len(ret.pvalues) :
            ret.pvalues[i] > 0 /\ ret.pvalues[i] # FlOne

\* C9: a second scan_association on the same context with the same G
\* returns what the first returned.
C9_ScanAssociationRepeats ==
    (ret.op = "scan_association" /\ prev.op = "scan_association") => ret = prev

\* C9 witness: two scans in a row that returned p-values for several columns
C9_Witness ==
    /\ ret.op = "scan_association" /\ prev.op = "scan_association"
    /\ ret.status = "ok" /\ Len(ret.pvalues) >= 2
    /\ ret.pvalues[1] # ret.pvalues[2]

\* C10: for a fixed null LML the p-value of lrt_pvalues is non-increasing in
\* the alternative LML, also across the clipping thresholds.
C10_Monotone ==
    (LrtDone /\ fn.in.alt_lmls[1] <= fn.in.alt_lmls[2]) => fn.out[2] <= fn.out[1]

\* C10 witness: the smaller alternative is clipped at the upper threshold and
\* the larger at the lower threshold, with a p-value strictly between them
\* for an alternative in between.
C10_Witness ==
    /\ LrtDone
    /\ fn.in.alt_lmls[1] < fn.in.alt_lmls[2]
    /\ fn.out[1] = OneMinusTiny
    /\ fn.out[2] = EpsSuperTiny
    /\ Chi2Sf(Lrs(fn.in.null_lml, fn.in.alt_lmls[2]), 1) < EpsSuperTiny

\* a scan_interaction call, of either class, that returned its arrays
ScanInteractionOk ==
    pc = "idle" /\ ret.op = "scan_interaction" /\ ret.status = "ok"

\* the p-value of column i with the context matrix and the column in their
\* stored order
UnpermutedPvalue(i) ==
    SnpScore(G[i], Rows(G[i], "None"), obj.W, Rows(obj.E0.mat, "None"),
             obj.rho1, obj.Sigma_qs, obj.y).pval

\* C11: no step of a scan_interaction, with or without idx_E and idx_G,
\* changes the stored context (y, W, E0, E1, Ls, the grid, the cache), and a
\* call without indices that follows a call with indices returns the
\* unpermuted result.
C11_ContextUnchanged ==
    /\ [][(\/ pc = "scan_interaction"
           \/ (obj.cls = "StructLMM2" /\ call'.via = "scan_interaction"))
             => obj' = obj]_vars
    /\ []((ScanInteractionOk /\ call.idx_E = "None" /\ call.idx_G = "None"
            /\ call.seen_perm)
              => \A i \in 1..Len(G) : ret.pvalues[i] = UnpermutedPvalue(i))

\* C11 witness: a scan without indices returned after a scan with idx_E on
\* the same context, and the index changes the p-value of a column
C11_Witness ==
    /\ ScanInteractionOk /\ call.idx_E = "None" /\ call.idx_G = "None"
    /\ call.seen_perm /\ Len(G) >= 1
    /\ obj.E0 = Rows("E", "None")
    /\ SnpTest(G[1], obj.W, Take(obj.E0, "pi"), obj.rho1, obj.Sigma_qs, obj.y).pval
          # ret.pvalues[1]

\* what the scan computes for column i when its score statistic uses the
\* column reordered by idx_G and the context matrix reordered by idx_E
PermutedColumnResult(i) ==
    SnpScore(G[i], Take(Rows(G[i], "None"), call.idx_G), obj.W,
             Take(obj.E0, call.idx_E), obj.rho1, obj.Sigma_qs, obj.y)

\* C12: the score statistic of each variant of a scan_interaction, of
\* CellRegMap and of StructLMM2, uses the factor g[idx_G] (.) E0 when idx_G
\* is given and g (.) E0 when it is None, the null model keeping the
\* unpermuted column.
C12_PermutedGenotypeFactor ==
    (ScanInteractionOk /\ call.via = "scan_interaction") =>
        \A i \in 1..Len(G) : ret.pvalues[i] = PermutedColumnResult(i).pval

\* C13: the idx_G given to run_interaction reaches scan_interaction as
\* idx_G, and the context matrix of the GxC component keeps its row order.
C13_RunInteractionIndex ==
    (call.via = "run_interaction") =>
        /\ call.idx_G = call.arg_idx_G
        /\ call.idx_E = "None"
        /\ (ScanInteractionOk =>
               \A i \in 1..Len(G) :
                   ret.pvalues[i] =
                       SnpScore(G[i], Take(Rows(G[i], "None"), call.arg_idx_G), obj.W,
                                obj.E0, obj.rho1, obj.Sigma_qs, obj.y).pval)

\* C14: the context run_association(y, W, E, G, hK) and
\* run_association_fast(y, W, E, G, hK) build has W as the fixed-effect
\* covariates and E as the cellular contexts, the background covariance
\* being built from E.
C14_RunAssociationRoles ==
    (call.via \in {"run_association", "run_association_fast"}) =>
        /\ obj.W = "W"
        /\ obj.E0 = Rows("E", "None")
        /\ \A r \in DOMAIN obj.halfSigma : obj.halfSigma[r].prim = "E"

\* C15 as stated: every constructed CellRegMap has y, W, E, E1, every Ls[i]
\* and hK of the same sample count.
C15_MismatchFailsAtConstruction ==
    obj.cls = "CellRegMap" =>
        \A k \in ArgNames : obj.shapes[k] \in {NoRows, SameRows}

\* C15, amended: every constructed CellRegMap has W, E, E1 and every Ls[i]
\* of the sample count of y, and hK too when Ls is empty (hK is not read
\* when Ls is given); a construction with such a disagreement raises and
\* leaves no context and no cache entry.
C15_UsedMismatchFailsAtConstruction ==
    /\ obj.cls = "CellRegMap" =>
          /\ \A k \in ArgNames \ {"hK"} : obj.shapes[k] \in {NoRows, SameRows}
          /\ obj.shapes.Ls = NoRows => obj.shapes.hK \in {NoRows, SameRows}
    /\ (call.via = "__init__" /\ ret.status = "raised") =>
          /\ obj = NoObj
          /\ DOMAIN obj.Sigma_qs = {} /\ DOMAIN obj.halfSigma = {}
    /\ (call.via = "__init__" /\ ret.status = "ok" /\ obj.cls = "CellRegMap") =>
          obj.shapes = call.shapes

\* C15 witness: a construction with an hK of another sample count, Ls
\* empty, raised
C15_Witness ==
    /\ call.via = "__init__" /\ ret.status = "raised"
    /\ call.shapes.hK = OtherRows /\ call.shapes.Ls = NoRows
    /\ obj = NoObj

\* C16: every diagnostics array a scan returns has one entry per column of G.
C16_DiagnosticsPerVariant ==
    (pc = "idle" /\ ret.status = "ok"
       /\ ret.op \in {"scan_association", "scan_association_fast", "scan_interaction"}) =>
        /\ Len(ret.rho1) = Len(G) /\ Len(ret.e2) = Len(G)
        /\ Len(ret.g2) = Len(G) /\ Len(ret.eps2) = Len(G)

\* C17: the cache of a CellRegMap has one entry per grid point, each the
\* decomposition of the half-matrix of its rho, and no step of any operation
\* on the context changes the grid or an entry of the cache.
C17_CacheReadOnly ==
    /\ [](obj.cls = "CellRegMap" =>
            /\ DOMAIN obj.Sigma_qs = Range(obj.rho1)
            /\ DOMAIN obj.halfSigma = Range(obj.rho1)
            /\ Cardinality(DOMAIN obj.Sigma_qs) = Len(obj.rho1)
            /\ \A r \in DOMAIN obj.Sigma_qs :
                  /\ obj.Sigma_qs[r] = EconomicQs(obj.halfSigma[r])
                  /\ obj.halfSigma[r].a2 = r /\ obj.halfSigma[r].prim = obj.E1)
    /\ [][obj.cls = "CellRegMap" =>
            /\ obj'.rho1 = obj.rho1
            /\ obj'.halfSigma = obj.halfSigma
            /\ obj'.Sigma_qs = obj.Sigma_qs]_vars

\* C17 witness: predict_interaction returned on a context with the 11-point
\* grid, for at least one column
C17_Witness ==
    /\ obj.cls = "CellRegMap" /\ Len(obj.rho1) = CellRegMapGridLen
    /\ pc = "idle" /\ ret.op = "predict_interaction" /\ ret.status = "ok"
    /\ Len(G) >= 1

\* C18: the fits of scan_association and scan_association_fast are full
\* maximum likelihood, those of scan_interaction, predict_interaction and
\* estimate_aggregate_environment restricted, and the two LMLs of every
\* likelihood-ratio test have the same likelihood type.
C18_LikelihoodTypes ==
    (pc = "idle" /\ ret.status = "ok") =>
        /\ ret.op \in {"scan_association", "scan_association_fast",
                       "run_association", "run_association_fast"} =>
              /\ ret.restricted = {FALSE}
              /\ \A t \in ret.lrt : t[1] = t[2]
        /\ ret.op \in {"scan_interaction", "predict_interaction",
                       "estimate_aggregate_environment"} =>
              ret.restricted \subseteq {TRUE}

\* C18 witness: a scan_association that compared a null with alternatives
C18_Witness ==
    /\ pc = "idle" /\ ret.status = "ok" /\ ret.op = "scan_association"
    /\ Len(G) >= 2 /\ ret.lrt = {<<FALSE, FALSE>>}

\* C19: every normalization factor of predict_interaction is finite, also
\* for a MAF of 0.
C19_NormalizationFinite ==
    (pc = "idle" /\ ret.op = "predict_interaction" /\ ret.status = "ok") =>
        \A i \in 1..Len(ret.norm) : ret.norm[i] < Inf

\* the grid search of the null model of scan_association on the context
NullSweep ==
    GridSearch(obj.rho1, GridFits(obj, DesignOf(obj.W, 0, "none"), FALSE))

\* the grid search of the alternative model [W | g] of column i
AltSweep(i) ==
    GridSearch(obj.rho1, GridFits(obj, DesignOf(obj.W, G[i], "none"), FALSE))

\* the fit of the alternative model of column i at the grid point rho1
AltFitAt(i, rho1) ==
    LMMFit(obj.y, DesignOf(obj.W, G[i], "none"), obj.Sigma_qs[rho1], FALSE)

ScanAssociationOk ==
    pc = "idle" /\ ret.op = "scan_association" /\ ret.status = "ok"

\* C20 as stated: the p-value of each variant of scan_association compares
\* the null with the arg-max, over the grid, of the fits of [W | g].
C20_AlternativeSweepsGrid ==
    ScanAssociationOk =>
        \A i \in 1..Len(G) :
            ~AltSweep(i).raised =>
                ret.pvalues[i] =
                    LrtPvalues(NullSweep.best.lml, <<AltSweep(i).best.lml>>, 1)[1]

\* C20, amended: the grid is swept by the null fit only; the alternative
\* model of each variant is fitted once, with the decomposition of the rho
\* the null sweep selected, and that fit is compared with the null.
C20_AlternativeAtNullRho ==
    ScanAssociationOk =>
        /\ ret.rho1 = <<NullSweep.best.rho1>>
        /\ \A i \in 1..Len(G) :
              ret.pvalues[i] =
                  LrtPvalues(NullSweep.best.lml,
                             <<AltFitAt(i, ret.rho1[1]).lml>>, 1)[1]

\* C20 witness: a scan in which, for some column, a grid point other than
\* the one the null selected has the greater alternative LML
C20_Witness ==
    /\ ScanAssociationOk
    /\ \E i \in 1..Len(G) :
          /\ ~AltSweep(i).raised
          /\ AltSweep(i).best.lml > AltFitAt(i, ret.rho1[1]).lml
          /\ ret.pvalues[i] #
                LrtPvalues(NullSweep.best.lml, <<AltSweep(i).best.lml>>, 1)[1]

\* what process_snp_batch returns for the column g when it is the only
\* column of the only batch
AloneResult(g) ==
    ProcessSnpBatch(<<0>>, <<g>>, obj.W, Take(obj.E0, call.idx_E), obj.rho1,
                    obj.Sigma_qs, obj.y)

\* C21: the p-value and the diagnostics scan_interaction returns for column
\* i are those of a scan of column i alone on the same context, whatever
\* the worker count, the batch size, the order in which the workers finish
\* and the other columns; and a worker writes its own result slot only.
C21_VariantIndependent ==
    /\ []((ScanInteractionReturned /\ ret.status = "ok") =>
            \A i \in 1..Len(G) :
                /\ ret.pvalues[i] = AloneResult(G[i]).pvalues[1]
                /\ ret.rho1[i] = AloneResult(G[i]).rho1[1]
                /\ ret.e2[i] = AloneResult(G[i]).e2[1]
                /\ ret.g2[i] = AloneResult(G[i]).g2[1]
                /\ ret.eps2[i] = AloneResult(G[i]).eps2[1])
    /\ [][(pc = "scan_interaction" /\ pc' = "scan_interaction") =>
            /\ obj' = obj /\ G' = G /\ call' = call
            /\ \A b \in DOMAIN results :
                  results[b] # Pending => results'[b] = results[b]]_vars

\* C21 witness: a scan of four columns in two batches of two, where the
\* first and the last column are equal and have other neighbours, and
\* their results are equal and differ from the result of the second column
C21_Witness ==
    /\ ScanInteractionReturned /\ ret.status = "ok"
    /\ Len(G) = 4 /\ cores = 2
    /\ G[1] = G[4] /\ G[2] # G[1] /\ G[3] = G[2]
    /\ ret.pvalues[1] = ret.pvalues[4]
    /\ ret.pvalues[1] # ret.pvalues[2]

ComputePDone == fn.name = "compute_P" /\ fn.done
PMatDone == fn.name = "PMat" /\ fn.done

\* the identity matrix, and the covariance a Q0 diag(S0) Q0^T + b I a
\* solver stands for, as a dense matrix
Identity(n) == Array([i \in 1..n |-> [j \in 1..n |-> RInt(IF i = j THEN 1 ELSE 0)]])
CovOf(qscov) ==
    LET Q0 == qscov.QS.Q0
        S0 == qscov.QS.S0
        n == Len(Q0)
    IN  Array([i \in 1..n |->
                  [j \in 1..n |->
                      RAdd(RMul(RInt(qscov.v0),
                                RSumTo([k \in 1..Len(S0) |->
                                           RMul(RInt(S0[k]), RMul(Q0[i][k], Q0[j][k]))],
                                       Len(S0))),
                           RInt(IF i = j THEN qscov.v1 ELSE 0))]])

\* C22: every projection the library builds annihilates its design.  The
\* projection P = PMat(qscov, X) that process_snp_batch builds from the
\* cache entry and the variance components of the selected fit sends the
\* intercept W, the tested column g and so every column of X = [W | g] to
\* zero, and P.dot is the matrix K^-1 - K^-1 X (X^T K^-1 X)^-1 X^T K^-1 of
\* the covariance K the solver stands for; the matrices compute_P(X, K) and
\* P_matrix(X, K) satisfy P @ X = 0 as well.
C22_ProjectionAnnihilatesDesign ==
    /\ (PMatDone /\ ~fn.out.raised) =>
           LET P == fn.out.P
               n == Len(fn.in.W)
               PX == PMatDot(P, P.X)
               PI == PMatDot(P, Identity(n))
           IN  ~PX.raised =>
                   /\ PMatDot(P, MatOf(fn.in.W)).val = ZeroMat(n, 1)
                   /\ PMatDot(P, MatOf(fn.in.g)).val = ZeroMat(n, 1)
                   /\ PX.val = ZeroMat(n, 2)
                   /\ PI.val = PMatrix(P.X, CovOf(P.qscov)).P
    /\ (ComputePDone /\ ~fn.out.raised) =>
           LET X == MatOf(fn.in.X)
               Q == PMatrix(X, MatOf(fn.in.K))
           IN  /\ MatMul(fn.out.P, X) = ZeroMat(Len(fn.in.K), Len(fn.in.X[1]))
               /\ ~Q.raised
               /\ MatMul(Q.P, X) = ZeroMat(Len(fn.in.K), Len(fn.in.X[1]))

\* C22 witness: process_snp_batch has built the projection of a column g
\* that is not constant; the second grid point was selected, its cache
\* entry has rank two with factors that are not unit vectors and a variance
\* component v0 > 0, so the covariance has entries off the diagonal; the
\* projection is not zero (it moves the first unit vector) and sends both
\* columns of the design to zero
C22_Witness ==
    /\ PMatDone /\ ~fn.out.raised
    /\ fn.in.g[1][1] # fn.in.g[2][1] /\ fn.in.g[3][1] # 0
    /\ fn.out.rho1 = RhoOne
    /\ Len(fn.out.P.qscov.QS.S0) = 2
    /\ fn.out.P.qscov.QS.Q0[1][1] = Rat(1, 3)
    /\ fn.out.P.qscov.v0 > 0
    /\ CovOf(fn.out.P.qscov)[1][2].n # 0
    /\ ~PMatDot(fn.out.P, fn.out.P.X).raised
    /\ PMatDot(fn.out.P, Array(<<<<RInt(1)>>, <<RInt(0)>>, <<RInt(0)>>>>)).val
           # ZeroMat(3, 1)
    /\ PMatDot(fn.out.P, fn.out.P.X).val = ZeroMat(3, 2)

\* Q = 1/2 y^T P dK P y with P the projection for the design W and the
\* covariance K
ScoreQ(y, W, K, dK) ==
    LET P == ComputeP(W, K).P
    IN  RDiv(MatMul(Transpose(y), MatMul(P, MatMul(dK, MatMul(P, y))))[1][1],
             RInt(2))

\* C23: score_statistic(y, W, K, dK) returns the scalar
\* Q = 1/2 y^T P dK P y, with P the projection for W and K.
C23_ScoreStatisticScalar ==
    (fn.name = "score_statistic" /\ fn.done) =>
        /\ ~fn.out.raised
        /\ fn.out.shape = <<>>
        /\ fn.out.val = <<ScoreQ(MatOf(fn.in.y), MatOf(fn.in.W), MatOf(fn.in.K),
                                 MatOf(fn.in.dK))>>

\* the sum of L @ L.T over the factors of a list
RECURSIVE SumOuter(_, _, _)
SumOuter(Ls, k, n) ==
    IF k = 0 THEN ZeroMat(n, n)
    ELSE MatAdd(SumOuter(Ls, k - 1, n), MatMul(Ls[k], Transpose(Ls[k])))

GetLValuesDone == fn.name = "get_L_values" /\ fn.done

\* C24: get_L_values(hK, E2) returns one factor per retained singular
\* direction of E2 (its rank), each of hK's shape, and the sum of
\* Ls[i] @ Ls[i].T is the Hadamard product (hK hK^T) * (E2 E2^T).
C24_KinshipFactors ==
    GetLValuesDone =>
        LET hK == MatOf(fn.in.hK)
            E2 == MatOf(fn.in.E)
        IN  /\ Len(fn.out) = Cardinality(Retained(E2))
            /\ \A i \in DOMAIN fn.out :
                  /\ Len(fn.out[i]) = Len(hK)
                  /\ \A r \in 1..Len(hK) : Len(fn.out[i][r]) = Len(hK[r])
            /\ SumOuter(fn.out, Len(fn.out), Len(hK))
                  = Hadamard(MatMul(hK, Transpose(hK)), MatMul(E2, Transpose(E2)))

\* C24 witness: an environment matrix of rank two whose columns are not
\* axes, with a kinship square root of two columns, gave two factors.
C24_Witness ==
    /\ GetLValuesDone
    /\ Len(fn.in.E[1]) = 2 /\ Len(fn.in.hK[1]) = 2
    /\ \A r \in 1..2 : \A c \in 1..2 : fn.in.E[r][c] # 0
    /\ fn.in.hK[1][2] # 0 /\ fn.in.hK[2][1] # 0
    /\ Len(fn.out) = 2
    /\ fn.out[1] # fn.out[2]

EffectSizeReturned ==
    /\ ret.status = "ok"
    /\ ret.op \in {"predict_interaction", "estimate_aggregate_environment"}

\* the column tested at position i of an effect-size call
EffectSizeColumns(i) ==
    IF ret.op = "predict_interaction" THEN {G[i]} ELSE Genotypes

\* C25: in predict_interaction and estimate_aggregate_environment every fit
\* of the grid uses the decomposition of the half-matrix rebuilt for that
\* variant and rho, whose primary block is g * E0; that half-matrix is the
\* one decomposed for the solve at the selected rho, and the cached
\* background decomposition is not the covariance of the fits.
C25_FitsUnderVariantCovariance ==
    EffectSizeReturned =>
        \A i \in DOMAIN ret.fit_qs :
            /\ \A r \in Range(obj.rho1) :
                  /\ ret.fit_qs[i][r] = EconomicQs(ret.hsigma[i][r])
                  /\ ret.fit_qs[i][r] # obj.Sigma_qs[r]
                  /\ \E g \in EffectSizeColumns(i) :
                        ret.hsigma[i][r].prim = GTimesE(g, obj.E0)
            /\ ret.solve_qs[i] = ret.fit_qs[i][ret.rho1[i]]

\* the secondary factors a context was built with can be read off only from
\* its cache: Ls when given, else hK when given, else none
CachedHalfMatricesWellFormed ==
    obj.cls # "none" =>
        /\ \A r \in Range(obj.rho1) :
              /\ obj.halfSigma[r].prim = obj.E1
              /\ obj.halfSigma[r].a2 = r
              /\ obj.halfSigma[r].b2 = RhoOne - r
              /\ Len(obj.Ls) > 0 => obj.halfSigma[r].sec = obj.Ls
              /\ Len(obj.Ls) = 0 => obj.halfSigma[r].sec \in {<<>>, <<"hK">>}
              /\ obj.halfSigma[r].sec = <<>> => obj.rho1 = <<RhoOne>>
        /\ \A r \in Range(obj.rho1) : \A q \in Range(obj.rho1) :
              obj.halfSigma[r].sec = obj.halfSigma[q].sec

\* C26: for every rho of the grid, the cached background half-matrix and the
\* per-variant half-matrix of predict_interaction and
\* estimate_aggregate_environment are the primary block at squared scale rho
\* followed by every secondary factor of the context (each L of Ls, or hK
\* when only hK was given) at squared scale 1 - rho; without secondary
\* factors the grid is {1.0} and the background half-matrix is E1.
C26_HalfMatrixBlocks ==
    /\ CachedHalfMatricesWellFormed
    /\ EffectSizeReturned =>
          \A i \in DOMAIN ret.hsigma : \A r \in Range(obj.rho1) :
              /\ ret.hsigma[i][r].a2 = r
              /\ ret.hsigma[i][r].b2 = RhoOne - r
              /\ ret.hsigma[i][r].sec = obj.halfSigma[r].sec

ComputeMafDone == fn.name = "compute_maf" /\ fn.done

\* the rows of column j that hold the dosage d
RowsWith(X, j, d) == {i \in 1..Len(X) : X[i][j] = d}

\* C27: for a genotype matrix over {0, 1, 2, missing}, every column with a
\* non-missing entry gets min(f, 1 - f), f = (sum of the non-missing
\* dosages) / (2 * number of non-missing entries); the result is in [0, 1/2].
C27_MinorAlleleFrequency ==
    ComputeMafDone =>
        /\ Len(fn.out) = Len(fn.in.X[1])
        /\ \A j \in DOMAIN fn.out :
              LET N == Len(fn.in.X) - Cardinality(RowsWith(fn.in.X, j, NaN))
                  S == Cardinality(RowsWith(fn.in.X, j, 1))
                         + 2 * Cardinality(RowsWith(fn.in.X, j, 2))
              IN  N > 0 =>
                     /\ fn.out[j] = Rat(Min2(S, 2 * N - S), 2 * N)
                     /\ fn.out[j].n >= 0
                     /\ 2 * fn.out[j].n <= fn.out[j].d

\* C27 witness: a column with a missing entry, whose allele frequency is
\* above one half, next to a column without missing entries whose allele
\* frequency is above one half too.
C27_Witness ==
    /\ ComputeMafDone
    /\ Len(fn.in.X[1]) = 2
    /\ Cardinality(RowsWith(fn.in.X, 1, NaN)) = 1
    /\ Cardinality(RowsWith(fn.in.X, 1, 2)) = 1
    /\ Cardinality(RowsWith(fn.in.X, 2, 1)) = 1
    /\ Cardinality(RowsWith(fn.in.X, 2, 2)) = 1
    /\ fn.out[1] = Rat(0, 1)
    /\ fn.out[2] = Rat(1, 4)

\* C28: the batches scan_interaction dispatches for m variants on c cores
\* are non-empty ranges of consecutive indices, of size at most
\* max(1, m // c), disjoint, in increasing order and covering 0..m-1 once;
\* every slot of the results is one batch; for m = 0 there is no batch and
\* the returned arrays are empty.
C28_BatchesPartition ==
    /\ pc = "scan_interaction" =>
          LET bt == Batches(Len(G), cores)
          IN  /\ Len(results) = Len(bt)
              /\ \A b \in DOMAIN bt :
                    /\ Len(bt[b]) >= 1
                    /\ Len(bt[b]) <= Max2(1, Len(G) \div cores)
                    /\ \A j \in 1..(Len(bt[b]) - 1) : bt[b][j + 1] = bt[b][j] + 1
                    /\ (results[b] # Pending /\ ~results[b].raised) =>
                          Len(results[b].pvalues) = Len(bt[b])
              /\ Flatten(bt, 1) = [i \in 1..Len(G) |-> i - 1]
              /\ Len(G) = 0 => bt = <<>>
    /\ (ScanInteractionReturned /\ ret.status = "ok" /\ Len(G) = 0) =>
          /\ ret.pvalues = <<>> /\ ret.rho1 = <<>>
          /\ ret.e2 = <<>> /\ ret.g2 = <<>> /\ ret.eps2 = <<>>

\* C28 witness: four variants on two cores went out as two batches of two,
\* and both came back.
C28_Witness ==
    /\ pc = "scan_interaction"
    /\ Len(G) = 4 /\ cores = 2
    /\ Len(results) = 2
    /\ \A b \in DOMAIN results :
          results[b] # Pending /\ ~results[b].raised /\ Len(results[b].pvalues) = 2

AnyScanInteractionReturned ==
    pc = "idle" /\ ret.op = "scan_interaction" /\ ret.status = "ok"

\* the fit of the design [W | G[i]] at the rho reported for variant i
SelectedFit(i) ==
    LMMFit(obj.y, DesignOf(obj.W, G[i], "none"), obj.Sigma_qs[ret.rho1[i]], TRUE)

\* C29: for each variant scan_interaction tests, the covariance solver is
\* built from the cached decomposition at the rho selected for that variant
\* with the variance components of the fit at that rho, and the projection
\* from that solver and the design [W | g_i] of that variant.
C29_ScoreTestOfTheSelectedFit ==
    AnyScanInteractionReturned =>
        /\ Len(ret.tests) = Len(G)
        /\ \A i \in DOMAIN ret.tests :
              /\ ret.tests[i].qscov.QS = obj.Sigma_qs[ret.rho1[i]]
              /\ ret.tests[i].qscov.QS.qs_of.a2 = ret.rho1[i]
              /\ ret.tests[i].qscov.v0 = SelectedFit(i).v0
              /\ ret.tests[i].qscov.v1 = SelectedFit(i).v1
              /\ ret.tests[i].P.qscov = ret.tests[i].qscov
              /\ ret.tests[i].P.X = DesignOf(obj.W, G[i], "none")

\* C29 witness: two variants whose searches selected different rho, neither
\* the last point of the grid, so that their solvers differ.
C29_Witness ==
    /\ AnyScanInteractionReturned
    /\ Len(G) = 2 /\ G[1] # G[2]
    /\ ret.rho1[1] # ret.rho1[2]
    /\ ret.rho1[1] # RhoOne /\ ret.rho1[2] # RhoOne
    /\ ret.tests[1].qscov.QS # ret.tests[2].qscov.QS
    /\ ret.tests[1].P.X # ret.tests[2].P.X

ScanReturned ==
    /\ pc = "idle" /\ ret.status = "ok"
    /\ ret.op \in {"scan_association", "scan_association_fast", "scan_interaction"}

\* the selected model of diagnostics entry i: the null fit of the design W
\* (full likelihood) in the association scans, the fit of [W | G[i]] in
\* scan_interaction
DiagnosedFit(i) ==
    IF ret.op = "scan_interaction" THEN SelectedFit(i)
    ELSE LMMFit(obj.y, DesignOf(obj.W, 0, "none"), obj.Sigma_qs[ret.rho1[i]], FALSE)

\* C30: in every diagnostics entry of scan_association,
\* scan_association_fast and scan_interaction, rho1 is a point of the grid,
\* e2 = v0 * rho1, g2 = v0 * (1 - rho1), e2 + g2 = v0 and eps2 = v1 for the
\* selected model; on the grid {1.0}, g2 = 0.
C30_Diagnostics ==
    ScanReturned =>
        /\ Len(ret.e2) = Len(ret.rho1) /\ Len(ret.g2) = Len(ret.rho1)
        /\ Len(ret.eps2) = Len(ret.rho1)
        /\ \A i \in DOMAIN ret.rho1 :
              /\ ret.rho1[i] \in Range(obj.rho1)
              /\ ret.e2[i] = DiagnosedFit(i).v0 * ret.rho1[i]
              /\ ret.g2[i] = DiagnosedFit(i).v0 * (RhoOne - ret.rho1[i])
              /\ ret.e2[i] + ret.g2[i] = DiagnosedFit(i).v0 * RhoOne
              /\ ret.eps2[i] = DiagnosedFit(i).v1
              /\ obj.rho1 = <<RhoOne>> => ret.g2[i] = 0

\* C30 witness: a scan_interaction of two variants on the grid of eleven
\* points reported an interior rho with distinct e2 and g2.
C30_Witness ==
    /\ ScanReturned /\ ret.op = "scan_interaction"
    /\ Len(obj.rho1) = CellRegMapGridLen
    /\ Len(ret.rho1) = 2
    /\ ret.rho1[1] # 0 /\ ret.rho1[1] # RhoOne
    /\ ret.e2[1] # ret.g2[1]
    /\ ret.e2[1] > 0 /\ ret.g2[1] > 0

====
